---- MODULE Spec2Model ----
(***************************************************************************)
(* Controller / Connector identity and control plane of grpccontroller.    *)
(*                                                                         *)
(* Time is counted in ticks of five minutes.  Strings of the program are   *)
(* TLA+ strings; an id is looked at character by character through         *)
(* IdChars.  A URI is a record: its path is kept as the list of segments   *)
(* strings.Split(strings.TrimPrefix(uri.Path, "/"), "/") returns, and      *)
(* uri.String() is the record itself.                                      *)
(***************************************************************************)
EXTENDS Integers, Sequences, FiniteSets, TLC

----------------------------------------------------------------------------
(* Bounds of the model *)

MaxTime == 3
WinCap == 2

(* Program constants, in ticks of five minutes *)

TokenTTL == 2
TenYears == 1051200
ConnectorCertTTL == 1
TunnelerCertTTL == 6
MaxIDLen == 128

TrustDomain == "mycorp.internal"
ZeroTime == 0 - 1

NoCert == [present |-> FALSE, uris |-> <<>>]
NoCtx == [set |-> FALSE]
NoIssued == [issued |-> FALSE]

----------------------------------------------------------------------------
(* Strings *)

Lower == {"a","b","c","d","e","f","g","h","i","j","k","l","m",
          "n","o","p","q","r","s","t","u","v","w","x","y","z"}
Upper == {"A","B","C","D","E","F","G","H","I","J","K","L","M",
          "N","O","P","Q","R","S","T","U","V","W","X","Y","Z"}
Digit == {"0","1","2","3","4","5","6","7","8","9"}

LongID == "x129"

IdChars ==
  [id \in {"c1", "c2", "t1", "t2", "", "a/b", LongID} |->
     CASE id = "c1" -> <<"c", "1">>
       [] id = "c2" -> <<"c", "2">>
       [] id = "t1" -> <<"t", "1">>
       [] id = "t2" -> <<"t", "2">>
       [] id = "" -> <<>>
       [] id = "a/b" -> <<"a", "/", "b">>
       [] OTHER -> [i \in 1..(MaxIDLen + 1) |-> "x"]]

validID(id) ==
  LET cs == IdChars[id]
  IN /\ Len(cs) # 0
     /\ Len(cs) <= MaxIDLen
     /\ \A i \in 1..Len(cs) :
          cs[i] \in Lower \cup Upper \cup Digit \cup {"-", "_", "."}

ParseIP(s) == IF s \in {"10.0.0.5", "10.0.0.6"} THEN <<s>> ELSE <<>>

----------------------------------------------------------------------------
(* SPIFFE URIs and certificates *)

URI(scheme, host, parts) == [scheme |-> scheme, host |-> host, parts |-> parts]

SpiffeID(td, role, id) == URI("spiffe", td, <<role, id>>)

PeerCert(uris) == [present |-> TRUE, uris |-> uris]

makeRoleSet(roles) == {roles[i] : i \in 1..Len(roles)} \ {""}

AllowedRoles == <<"connector", "tunneler">>

UnauthenticatedMethods == {"EnrollConnector"}

extractAndVerifySPIFFE(peer, trustDomain, allowedRoles) ==
  IF ~peer.present
  THEN [ok |-> FALSE, err |-> "no peer certificates presented"]
  ELSE IF Len(peer.uris) # 1
  THEN [ok |-> FALSE, err |-> "exactly one SPIFFE ID is required"]
  ELSE LET uri == peer.uris[1] IN
    IF uri.scheme # "spiffe"
    THEN [ok |-> FALSE, err |-> "SPIFFE ID must use spiffe:// scheme"]
    ELSE IF uri.host # trustDomain
    THEN [ok |-> FALSE, err |-> "SPIFFE trust domain mismatch"]
    ELSE IF Len(uri.parts) # 2
    THEN [ok |-> FALSE, err |-> "invalid SPIFFE path format"]
    ELSE IF allowedRoles # {} /\ uri.parts[1] \notin allowedRoles
    THEN [ok |-> FALSE, err |-> "invalid SPIFFE role"]
    ELSE [ok |-> TRUE, spiffeID |-> uri, role |-> uri.parts[1]]

(* The context the interceptor hands to the handler: invoked tells whether *)
(* the handler runs at all.                                                *)
UnaryAuthInterceptor(method, peer) ==
  IF method \in UnauthenticatedMethods
  THEN [invoked |-> TRUE, ctx |-> NoCtx]
  ELSE LET v == extractAndVerifySPIFFE(peer, TrustDomain, makeRoleSet(AllowedRoles))
       IN IF v.ok
          THEN [invoked |-> TRUE,
                ctx |-> [set |-> TRUE, spiffeID |-> v.spiffeID, role |-> v.role]]
          ELSE [invoked |-> FALSE, ctx |-> NoCtx]

(* strings.TrimPrefix(spiffeID, "spiffe://<td>/<role>/") as a list of the   *)
(* segments left; a spiffeID without that prefix is left whole.             *)
TrimPrefixID(uri, td, role) ==
  IF /\ uri.scheme = "spiffe"
     /\ uri.host = td
     /\ Len(uri.parts) >= 2
     /\ uri.parts[1] = role
  THEN SubSeq(uri.parts, 2, Len(uri.parts))
  ELSE <<uri.scheme, uri.host>> \o uri.parts

identityFromContext(ctx) ==
  IF ~ctx.set
  THEN [ok |-> FALSE, code |-> "Unauthenticated"]
  ELSE LET rest == TrimPrefixID(ctx.spiffeID, TrustDomain, ctx.role) IN
    IF rest = <<"">> \/ Len(rest) # 1
    THEN [ok |-> FALSE, code |-> "Unauthenticated"]
    ELSE [ok |-> TRUE, role |-> ctx.role, id |-> rest[1]]

parsePublicKey(pem) ==
  IF pem.bytes = "empty" THEN [ok |-> FALSE]
  ELSE IF pem.bytes # "pem" THEN [ok |-> FALSE]
  ELSE IF pem.alg = "bad" THEN [ok |-> FALSE]
  ELSE [ok |-> TRUE, alg |-> pem.alg, key |-> pem.key]

IssueWorkloadCert(spiffeID, pub, ttl, ipAddrs, t) ==
  IF ttl <= 0 THEN [ok |-> FALSE]
  ELSE IF spiffeID.scheme # "spiffe" THEN [ok |-> FALSE]
  ELSE IF pub.alg \notin {"ecdsa", "rsa", "ed25519"} THEN [ok |-> FALSE]
  ELSE [ok |-> TRUE,
        cert |-> [issued |-> TRUE, uris |-> <<spiffeID>>, ips |-> ipAddrs,
                  key |-> pub.key, isCA |-> FALSE, notAfter |-> t + ttl]]

----------------------------------------------------------------------------
(* Token store *)

hashToken(token) == <<"sha256", token>>

saveLocked(path, saveErr) == IF path = "" THEN TRUE ELSE ~saveErr

TokenStorePath == "tokens.json"

(* ConsumeToken binding the id before it looks at expires_at *)
ConsumeToken_BindFirst(toks, token, connectorID, t, saveErr) ==
  IF token = "" THEN [ok |-> FALSE, tokens |-> toks]
  ELSE IF connectorID = "" THEN [ok |-> FALSE, tokens |-> toks]
  ELSE LET hash == hashToken(token) IN
    IF hash \notin DOMAIN toks THEN [ok |-> FALSE, tokens |-> toks]
    ELSE LET bound == [toks EXCEPT ![hash].ConnectorID = connectorID] IN
      IF toks[hash].ExpiresAt # ZeroTime /\ t > toks[hash].ExpiresAt
      THEN [ok |-> FALSE, tokens |-> bound]
      ELSE [ok |-> saveLocked(TokenStorePath, saveErr), tokens |-> bound]

(* Result of TokenStore.ConsumeToken on the records toks at time t. *)
ConsumeToken(toks, token, connectorID, t, saveErr) ==
  IF token = "" THEN [ok |-> FALSE, tokens |-> toks]
  ELSE IF connectorID = "" THEN [ok |-> FALSE, tokens |-> toks]
  ELSE LET hash == hashToken(token) IN
    IF hash \notin DOMAIN toks THEN [ok |-> FALSE, tokens |-> toks]
    ELSE IF toks[hash].ExpiresAt # ZeroTime /\ t > toks[hash].ExpiresAt
    THEN [ok |-> FALSE, tokens |-> toks]
    ELSE [ok |-> saveLocked(TokenStorePath, saveErr),
          tokens |-> [toks EXCEPT ![hash].ConnectorID = connectorID]]

CreateTokenRecord(token, t) ==
  [Hash |-> hashToken(token),
   ExpiresAt |-> IF TokenTTL > 0 THEN t + TokenTTL ELSE t + TenYears,
   Used |-> FALSE,
   ConnectorID |-> ""]

(* The file at TokenStore.path: absent, or the JSON object json.Marshal  *)
(* makes of the records, a time.Time as its RFC 3339 text                 *)
File(exists, data) == [exists |-> exists, data |-> data]

NoFile == File(FALSE, <<>>)

MarshalTime(t) == <<"RFC3339", t>>

UnmarshalTime(text) == text[2]

MarshalTokens(toks) ==
  [h \in DOMAIN toks |->
     [Hash |-> toks[h].Hash, ExpiresAt |-> MarshalTime(toks[h].ExpiresAt),
      Used |-> toks[h].Used, ConnectorID |-> toks[h].ConnectorID]]

UnmarshalTokens(data) ==
  [h \in DOMAIN data |->
     [Hash |-> data[h].Hash, ExpiresAt |-> UnmarshalTime(data[h].ExpiresAt),
      Used |-> data[h].Used, ConnectorID |-> data[h].ConnectorID]]

(* TokenStore.load into the empty map NewTokenStore has made *)
load(path, data) ==
  IF path = "" THEN <<>>
  ELSE IF ~data.exists THEN <<>>
  ELSE UnmarshalTokens(data.data)

(* What saveLocked leaves at the path when it is asked to write toks *)
WriteFile(path, data, toks, saveErr) ==
  IF path = "" \/ saveErr THEN data ELSE File(TRUE, MarshalTokens(toks))

----------------------------------------------------------------------------
(* Registries *)

Put(f, k, v) == [x \in DOMAIN f \cup {k} |-> IF x = k THEN v ELSE f[x]]

Register(reg, id, privateIP, version, t) ==
  Put(reg, id, [ID |-> id, PrivateIP |-> privateIP, Version |-> version, LastSeen |-> t])

EmptySpiffe == URI("", "", <<>>)

(* TunnelerRegistry: byID and the order of first insertion *)
(* NotifyTunnelerAllowed on a server built without a TunnelerRegistry: *)
(* nothing is recorded                                                 *)
TunnelerAdd_NoRegistry(reg, id, spiffeID) == reg

TunnelerAdd(reg, id, spiffeID) ==
  IF id = "" \/ spiffeID = EmptySpiffe THEN reg
  ELSE [byID |-> Put(reg.byID, id, [ID |-> id, SPIFFEID |-> spiffeID]),
        order |-> IF id \in DOMAIN reg.byID THEN reg.order ELSE Append(reg.order, id)]

TunnelerList(reg) ==
  LET present == SelectSeq(reg.order, LAMBDA id : id \in DOMAIN reg.byID)
  IN [i \in 1..Len(present) |-> reg.byID[present[i]]]

----------------------------------------------------------------------------
(* Control-plane messages and the Connector's allowlist *)

ControlMessage(type, payload) == [type |-> type, payload |-> payload]

NoMessage == ControlMessage("", <<>>)

(* json.Marshal of a state.TunnelerInfo, and of a list of them *)
MarshalInfo(info) == [tunneler_id |-> info.ID, spiffe_id |-> info.SPIFFEID]

MarshalList(list) == [i \in 1..Len(list) |-> MarshalInfo(list[i])]

(* json.Unmarshal into the Connector's tunnelerInfo *)
UnmarshalInfo(payload) ==
  [TunnelerID |-> payload.tunneler_id, SPIFFEID |-> payload.spiffe_id]

UnmarshalList(payload) == [i \in 1..Len(payload) |-> UnmarshalInfo(payload[i])]

(* tunnelerAllowlist.Allowed answering yes to every SPIFFE id *)
Allowed_Always(bySPIFFE, spiffeID) == TRUE

Allowed(bySPIFFE, spiffeID) == spiffeID \in bySPIFFE

Replace(items) == {items[i].SPIFFEID : i \in 1..Len(items)} \ {EmptySpiffe}

(* Add keeping only the id added last *)
AllowlistAdd_Last(bySPIFFE, spiffeID) ==
  IF spiffeID = EmptySpiffe THEN bySPIFFE ELSE {spiffeID}

AllowlistAdd(bySPIFFE, spiffeID) ==
  IF spiffeID = EmptySpiffe THEN bySPIFFE ELSE bySPIFFE \cup {spiffeID}

(* The allowlist after the Connector has handled msg *)
handleControlMessage(msg, bySPIFFE) ==
  IF msg.type = "tunneler_allowlist" THEN Replace(UnmarshalList(msg.payload))
  ELSE IF msg.type = "tunneler_allow"
  THEN AllowlistAdd(bySPIFFE, UnmarshalInfo(msg.payload).SPIFFEID)
  ELSE bySPIFFE

ConnectorAllowedRoles == <<"tunneler">>

(* The Connector's inbound interceptor: whether the handler is invoked *)
StreamInterceptorWithAllowlist(peer, bySPIFFE) ==
  LET v == extractAndVerifySPIFFE(peer, TrustDomain, makeRoleSet(ConnectorAllowedRoles))
  IN IF ~v.ok THEN [invoked |-> FALSE, err |-> v.err]
     ELSE IF v.role = "tunneler" /\ ~Allowed(bySPIFFE, v.spiffeID)
     THEN [invoked |-> FALSE, err |-> "tunneler not allowed"]
     ELSE [invoked |-> TRUE, spiffeID |-> v.spiffeID, role |-> v.role]

(* The Controller's stream interceptor *)
StreamSPIFFEInterceptor(peer) ==
  LET v == extractAndVerifySPIFFE(peer, TrustDomain, makeRoleSet(AllowedRoles))
  IN IF v.ok
     THEN [invoked |-> TRUE,
           ctx |-> [set |-> TRUE, spiffeID |-> v.spiffeID, role |-> v.role]]
     ELSE [invoked |-> FALSE, ctx |-> NoCtx]

----------------------------------------------------------------------------
(* State *)

VARIABLES
  now,        \* wall clock of the Controller
  tokens,     \* TokenStore.tokens: hash -> TokenRecord
  handed,     \* tokens CreateToken has returned to the admin
  wins,       \* per token, how many consumptions succeeded (history)
  registry,   \* Registry.connectors: id -> ConnectorRecord
  tunnelers,  \* TunnelerRegistry: byID and order
  clients,    \* ControlPlaneServer.clients: spiffe id -> stream
  stream,     \* per control stream: the Connect handler and the wire
  notif,      \* per tunneler id: broadcast of NotifyTunnelerAllowed in flight
  allow,      \* per connector: tunnelerAllowlist.bySPIFFE
  session,    \* per connector: the stream of its current session, 0 if none
  tokenStoreSet, \* EnrollmentServer.Tokens is not nil
  file,       \* the file at TokenStore.path: what the last save wrote
  tunnelerStatus, \* TunnelerStatusRegistry.tunnelers: id -> TunnelerRecord
  obs,        \* presence: the message last handled or the listing last given
  wnow,       \* workload: the clock as the renewal loop last read it
  store,      \* workload: CertStore (cert, certPEM, notAfter)
  rl,         \* workload: renewalLoop
  cl,         \* workload: controlPlaneLoop and its session's handshake
  reloadCh,   \* workload: a signal is pending on reloadCh
  ctxDone,    \* workload: the context of Run has been cancelled
  rx,         \* workload: the receive goroutine of the session, recvCh
  sendCh,     \* workload: messages waiting in controllerSendCh
  th,         \* workload: the Connect handler of an inbound tunneler stream
  wlog,       \* workload: the lines renewalLoop has logged
  last        \* the last RPC: its inputs and its outcome

vars == <<now, tokens, handed, wins, registry, tunnelers, clients, stream,
          notif, allow, session, tokenStoreSet, file, tunnelerStatus, obs,
          wnow, store, rl, cl, reloadCh, ctxDone, rx, sendCh, th, wlog, last>>

tokVars == <<tokens, handed, wins, file>>
ctlVars == <<clients, stream, allow, session>>
cfgVars == <<tokenStoreSet>>
presVars == <<tunnelerStatus, obs>>
procVars == <<ctxDone, rx, sendCh, th>>
wlVars == <<wnow, store, rl, cl, reloadCh, procVars, wlog>>

TokensConfigured == tokenStoreSet
NotifierConfigured == TRUE

----------------------------------------------------------------------------
(* Enrollment handlers: the outcome of a call in the current state *)

(* authorizeConnectorToken reporting a missing token store as a bad token *)
authorizeConnectorToken_NoStoreDenied(token, connectorID, saveErr) ==
  IF ~TokensConfigured
  THEN [code |-> "PermissionDenied", consumed |-> FALSE, tokens |-> tokens]
  ELSE LET c == ConsumeToken(tokens, token, connectorID, now, saveErr) IN
    IF ~c.ok
    THEN [code |-> "PermissionDenied", consumed |-> FALSE, tokens |-> c.tokens]
    ELSE [code |-> "OK", consumed |-> TRUE, tokens |-> c.tokens]

authorizeConnectorToken(token, connectorID, saveErr) ==
  IF ~TokensConfigured
  THEN [code |-> "FailedPrecondition", consumed |-> FALSE, tokens |-> tokens]
  ELSE LET c == ConsumeToken(tokens, token, connectorID, now, saveErr) IN
    IF ~c.ok
    THEN [code |-> "PermissionDenied", consumed |-> FALSE, tokens |-> c.tokens]
    ELSE [code |-> "OK", consumed |-> TRUE, tokens |-> c.tokens]

Failed(code) ==
  [code |-> code, cert |-> NoIssued, consumed |-> FALSE, tokens |-> tokens,
   registry |-> registry, notify |-> FALSE]

EnrollConnector(req, saveErr) ==
  IF ~validID(req.id) THEN Failed("InvalidArgument")
  ELSE IF req.private_ip = "" THEN Failed("InvalidArgument")
  ELSE IF req.version = "" THEN Failed("InvalidArgument")
  ELSE LET pub == parsePublicKey(req.public_key) IN
    IF ~pub.ok THEN Failed("InvalidArgument")
    ELSE LET a == authorizeConnectorToken(req.token, req.id, saveErr) IN
      IF a.code # "OK" THEN [Failed(a.code) EXCEPT !.tokens = a.tokens]
      ELSE LET spiffeID == SpiffeID(TrustDomain, "connector", req.id)
               c == IssueWorkloadCert(spiffeID, pub, ConnectorCertTTL,
                                      ParseIP(req.private_ip), now)
           IN IF ~c.ok
              THEN [Failed("Internal") EXCEPT !.tokens = a.tokens, !.consumed = TRUE]
              ELSE [code |-> "OK", cert |-> c.cert, consumed |-> TRUE,
                    tokens |-> a.tokens,
                    registry |-> Register(registry, req.id, req.private_ip,
                                          req.version, now),
                    notify |-> FALSE]

EnrollTunneler(req, saveErr) ==
  IF ~validID(req.id) THEN Failed("InvalidArgument")
  ELSE IF req.token = "" THEN Failed("InvalidArgument")
  ELSE LET pub == parsePublicKey(req.public_key) IN
    IF ~pub.ok THEN Failed("InvalidArgument")
    ELSE LET a == authorizeConnectorToken(req.token, req.id, saveErr) IN
      IF a.code # "OK" THEN [Failed(a.code) EXCEPT !.tokens = a.tokens]
      ELSE LET spiffeID == SpiffeID(TrustDomain, "tunneler", req.id)
               c == IssueWorkloadCert(spiffeID, pub, TunnelerCertTTL, <<>>, now)
           IN IF ~c.ok
              THEN [Failed("Internal") EXCEPT !.tokens = a.tokens, !.consumed = TRUE]
              ELSE [code |-> "OK", cert |-> c.cert, consumed |-> TRUE,
                    tokens |-> a.tokens, registry |-> registry,
                    notify |-> NotifierConfigured]

(* Renew without the comparison of the peer's id with the request's id *)
Renew_NoIdCheck(ctx, req) ==
  IF ~validID(req.id) THEN Failed("InvalidArgument")
  ELSE LET pub == parsePublicKey(req.public_key) IN
    IF ~pub.ok THEN Failed("InvalidArgument")
    ELSE LET who == identityFromContext(ctx) IN
      IF ~who.ok THEN Failed(who.code)
      ELSE LET spiffeID == SpiffeID(TrustDomain, who.role, req.id)
               ttl == IF who.role = "connector" THEN ConnectorCertTTL
                      ELSE TunnelerCertTTL
               c == IssueWorkloadCert(spiffeID, pub, ttl, <<>>, now)
           IN IF ~c.ok THEN Failed("Internal")
              ELSE [Failed("OK") EXCEPT !.cert = c.cert]

(* Renew issuing every renewal with the connector's role and lifetime *)
Renew_ConnectorOnly(ctx, req) ==
  IF ~validID(req.id) THEN Failed("InvalidArgument")
  ELSE LET pub == parsePublicKey(req.public_key) IN
    IF ~pub.ok THEN Failed("InvalidArgument")
    ELSE LET who == identityFromContext(ctx) IN
      IF ~who.ok THEN Failed(who.code)
      ELSE IF who.id # req.id THEN Failed("PermissionDenied")
      ELSE LET spiffeID == SpiffeID(TrustDomain, "connector", req.id)
               c == IssueWorkloadCert(spiffeID, pub, ConnectorCertTTL, <<>>, now)
           IN IF ~c.ok THEN Failed("Internal")
              ELSE [Failed("OK") EXCEPT !.cert = c.cert]

Renew(ctx, req) ==
  IF ~validID(req.id) THEN Failed("InvalidArgument")
  ELSE LET pub == parsePublicKey(req.public_key) IN
    IF ~pub.ok THEN Failed("InvalidArgument")
    ELSE LET who == identityFromContext(ctx) IN
      IF ~who.ok THEN Failed(who.code)
      ELSE IF who.id # req.id THEN Failed("PermissionDenied")
      ELSE LET spiffeID == SpiffeID(TrustDomain, who.role, req.id)
               ttl == IF who.role = "connector" THEN ConnectorCertTTL
                      ELSE TunnelerCertTTL
               ipAddrs == IF who.role = "connector" /\ req.id \in DOMAIN registry
                          THEN ParseIP(registry[req.id].PrivateIP)
                          ELSE <<>>
               c == IssueWorkloadCert(spiffeID, pub, ttl, ipAddrs, now)
           IN IF ~c.ok THEN Failed("Internal")
              ELSE [Failed("OK") EXCEPT !.cert = c.cert]

----------------------------------------------------------------------------
(* Inputs *)

TokenValues == {"tokA"}
ConnectorIds == {"c1", "c2"}
ValidIDs == {id \in DOMAIN IdChars : validID(id)}

Key(bytes, alg, key) == [bytes |-> bytes, alg |-> alg, key |-> key]
GoodKey == Key("pem", "ecdsa", "k1")
EmptyKey == Key("empty", "bad", "")
JunkKey == Key("junk", "bad", "")
BadDERKey == Key("pem", "bad", "")
DSAKey == Key("pem", "dsa", "k2")

Req(id, pk, token, ip, version) ==
  [id |-> id, public_key |-> pk, token |-> token, private_ip |-> ip,
   version |-> version]

(* What is known of an RPC when it returns: the server it was made at, its  *)
(* inputs, whether its handler was invoked, its status and certificate, and *)
(* the stores as it found them                                              *)
Outcome(m, peer, req, ran, code, cert) ==
  [m |-> m, at |-> "controller", peer |-> peer, req |-> req, ran |-> ran,
   code |-> code, cert |-> cert,
   pre |-> [tokens |-> tokens, registry |-> registry, tunnelers |-> tunnelers]]

NoRequest == Req("", EmptyKey, "", "", "")

NoOutcome ==
  [m |-> "none", at |-> "", peer |-> NoCert, req |-> NoRequest, ran |-> FALSE,
   code |-> "none", cert |-> NoIssued,
   pre |-> [tokens |-> <<>>, registry |-> <<>>,
            tunnelers |-> [byID |-> <<>>, order |-> <<>>]]]

IdleStream ==
  [pc |-> "idle", owner |-> EmptySpiffe, alive |-> FALSE, snap |-> <<>>,
   q |-> <<>>, first |-> "none", stale |-> FALSE, deltas |-> {},
   sendMu |-> <<>>, inSend |-> {}]

IdleNotify == [pc |-> "idle", msg |-> NoMessage, targets |-> {}, owed |-> {}]

MaxStreams == 2
StreamIds == 1..MaxStreams

----------------------------------------------------------------------------
(* The workload side: leaf certificates, the certificate store, the      *)
(* renewal schedule.  Times are seconds on the workload's clock.          *)

TenSeconds == 10
OneMinute == 60
ThirtySeconds == 30
TickSeconds == 300

(* The lifetime IssueWorkloadCert gives a leaf of the role *)
LeafTTL(role) ==
  IF role = "connector" THEN ConnectorCertTTL * TickSeconds
  ELSE TunnelerCertTTL * TickSeconds

(* A parsed leaf: the renewal that produced it (0 is enrollment), the    *)
(* number of its URI SANs, its validity                                   *)
Leaf(gen, uris, notBefore, notAfter) ==
  [gen |-> gen, uris |-> uris, notBefore |-> notBefore, notAfter |-> notAfter]

NoLeaf == Leaf(-1, 0, 0, 0)

(* The leaf the Controller issues at time t: valid from one minute ago *)
IssuedLeaf(gen, uris, t, role) ==
  Leaf(gen, uris, t - OneMinute, t + LeafTTL(role))

(* tls.Certificate: the chain and the private key that signs for it; a  *)
(* key is named by the renewal that generated it                         *)
TLSCert(leaf, key) == [Certificate |-> leaf, PrivateKey |-> key]

NoTLSCert == TLSCert(NoLeaf, -1)

EnrolledCert(role) == TLSCert(IssuedLeaf(0, 1, 0, role), 0)

NewCertStore(cert, certPEM, notAfter) ==
  [cert |-> cert, certPEM |-> certPEM, notAfter |-> notAfter]

(* CertStore.Update, as its caller sees it once the lock is released *)
Update(s, cert, certPEM, notAfter) ==
  [s EXCEPT !.cert = cert, !.certPEM = certPEM, !.notAfter = notAfter]

NotAfter(s) == s.notAfter

GetClientCertificate_Enrolled(s) ==
  [store |-> FALSE, copy |-> EnrolledCert("connector")]

(* GetClientCertificate returns &s.cert: a reference into the store,    *)
(* which the handshake reads after the read lock is released             *)
GetClientCertificate(s) == [store |-> TRUE, copy |-> s.cert]

NoPointer == [store |-> FALSE, copy |-> NoTLSCert]

(* What a read through the reference finds *)
Deref(p, s) == IF p.store THEN s.cert ELSE p.copy

(* A CA in PEM: the text on the wire and the DER pem.Decode finds in it *)
(* ("none" when the text holds no PEM block)                             *)
PinnedCA == [text |-> "ca1", der |-> "ca1"]
ReencodedCA == [text |-> "ca1 crlf", der |-> "ca1"]
OtherCA == [text |-> "ca2", der |-> "ca2"]
JunkCA == [text |-> "junk", der |-> "none"]
EmptyCA == [text |-> "", der |-> "none"]

pemDecode(p) == p.der

EqualCAPEM_Always(a, b) == a = a /\ b = b

(* EqualCAPEM: both must hold a PEM block, and the DER bytes must match *)
EqualCAPEM(a, b) ==
  LET blockA == pemDecode(a)
      blockB == pemDecode(b)
  IN  IF blockA = "none" \/ blockB = "none" THEN FALSE
      ELSE blockA = blockB

(* A Renew response as the workload receives it: the RPC error, the CA, *)
(* the certificate PEM ("cert", "junk": no CERTIFICATE block, "badder": *)
(* a block x509 cannot parse) and the URI SANs of the leaf in it         *)
Response(err, ca, pem, uris) ==
  [err |-> err, ca |-> ca, pem |-> pem, uris |-> uris]

NoResponse == Response(TRUE, EmptyCA, "none", 0)

Renewed(err, cert, certPEM, notAfter, notBefore) ==
  [err |-> err, cert |-> cert, certPEM |-> certPEM, notAfter |-> notAfter,
   notBefore |-> notBefore]

RenewFailed == Renewed(TRUE, NoTLSCert, NoLeaf, 0, 0)

(* renewOnce at time t, with the n-th generated key *)
renewOnce(caPEM, n, t, role, resp) ==
  IF resp.err THEN RenewFailed
  ELSE IF resp.ca.text = "" THEN RenewFailed
  ELSE IF ~EqualCAPEM(caPEM, resp.ca) THEN RenewFailed
  ELSE IF resp.pem = "junk" THEN RenewFailed
  ELSE IF resp.pem = "badder" THEN RenewFailed
  ELSE LET leaf == IssuedLeaf(n, resp.uris, t, role)
       IN  Renewed(FALSE, TLSCert(leaf, n), leaf, leaf.notAfter, leaf.notBefore)

(* The error renewOnce returns, "" when it returns none *)
renewError(caPEM, resp) ==
  IF resp.err THEN "rpc error"
  ELSE IF resp.ca.text = "" THEN "empty CA certificate in renewal response"
  ELSE IF ~EqualCAPEM(caPEM, resp.ca) THEN "internal CA mismatch during renewal"
  ELSE IF resp.pem = "junk" THEN "invalid certificate PEM"
  ELSE IF resp.pem = "badder" THEN "x509: malformed certificate"
  ELSE ""

(* The one line renewalLoop logs, written by attempt n *)
RenewalFailedEvent == "certificate renewal failed: %v"

LogLine(n, event, err) == [n |-> n, event |-> event, err |-> err]

nextRenewal_OneThird(t, notAfter, totalTTL) ==
  LET ttl == notAfter - t
      third == ttl \div 3
      advance == IF third < TickSeconds THEN TickSeconds ELSE third
      next == notAfter - advance
  IN  IF ttl <= 0 THEN t + TenSeconds
      ELSE IF next < t + ThirtySeconds THEN t + ThirtySeconds
      ELSE next

(* nextRenewal, with t the reading of time.Now() *)
nextRenewal(t, notAfter, totalTTL) ==
  LET remaining == notAfter - t
      ttl == IF totalTTL <= 0 THEN remaining ELSE totalTTL
      renewAt == (ttl * 30) \div 100
      next == notAfter - renewAt
  IN  IF remaining <= 0 THEN t + TenSeconds
      ELSE IF next < t + TenSeconds THEN t + TenSeconds
      ELSE next

(* A ControlMessage as the Controller receives it *)
WireMessage(type, connectorID, privateIP, payload) ==
  [type |-> type, connector_id |-> connectorID, private_ip |-> privateIP,
   status |-> "ONLINE", payload |-> payload]

(* The payload bytes of a message: a JSON object of the tunneler status, *)
(* or bytes json.Unmarshal refuses (json = FALSE), the empty payload     *)
(* among them                                                            *)
StatusPayload(tunnelerID, spiffeID, connectorID) ==
  [json |-> TRUE, tunneler_id |-> tunnelerID, spiffe_id |-> spiffeID,
   status |-> "ONLINE", connector_id |-> connectorID]

NoPayload == [StatusPayload("", EmptySpiffe, "") EXCEPT !.json = FALSE, !.status = ""]

JunkPayload == [NoPayload EXCEPT !.status = "{"]

NoWire == WireMessage("", "", "", NoPayload)

(* What a workload sends on the stream it has opened: its hello, and on  *)
(* a tick of the ticker its heartbeat                                    *)
WorkloadID(role) == IF role = "connector" THEN "c1" ELSE "t1"

WorkloadIP == "10.0.0.5"

Hello(role) ==
  [WireMessage(IF role = "connector" THEN "connector_hello" ELSE "tunneler_hello",
               "", "", NoPayload) EXCEPT !.status = ""]

Heartbeat(role) ==
  IF role = "connector"
  THEN WireMessage("heartbeat", WorkloadID(role), WorkloadIP, NoPayload)
  ELSE WireMessage("tunneler_heartbeat", "", "",
         [StatusPayload(WorkloadID(role),
                        SpiffeID(TrustDomain, "tunneler", WorkloadID(role)), "")
            EXCEPT !.status = ""])

(* A message taken from controllerSendCh and sent on *)
Relayed == [NoWire EXCEPT !.type = "tunneler_heartbeat", !.status = ""]

(* The renewal loop and the control-stream loop before Run starts them *)
RenewalOff ==
  [pc |-> "off", role |-> "none", totalTTL |-> 0, next |-> 0, n |-> 0,
   done |-> 0, resp |-> NoResponse, new |-> RenewFailed,
   presented |-> NoTLSCert]

(* hellos, first and sent keep what the session has sent on its stream: *)
(* how many hellos, the type of the first message, the last message;    *)
(* tick is whether ticker.C holds a tick                                 *)
ControlOff ==
  [pc |-> "off", backoff |-> 0, ptr |-> NoPointer, chain |-> NoLeaf,
   key |-> -1, floor |-> 0,
   hellos |-> 0, first |-> "", sent |-> NoWire, tick |-> FALSE]

(* The receive goroutine of a session: where it is, how many messages    *)
(* recvCh and recvErr hold, whether its session has returned, and whether *)
(* a goroutine of an earlier session is still blocked on its recvCh       *)
RecvOff == [pc |-> "off", recvCh |-> 0, recvErr |-> 0, over |-> FALSE, leaked |-> FALSE]

(* The Connect handler the Connector runs for a tunneler's stream *)
HandlerOff ==
  [pc |-> "off", spiffeID |-> EmptySpiffe, tunnelerID |-> "",
   in |-> NoWire, out |-> NoWire]

(* Before Run has started a goroutine *)
ProcIdle ==
  /\ ctxDone = FALSE
  /\ rx = RecvOff
  /\ sendCh = 0
  /\ th = HandlerOff
  /\ wlog = <<>>

WorkloadIdle ==
  /\ wnow = 0
  /\ store = NewCertStore(NoTLSCert, NoLeaf, 0)
  /\ rl = RenewalOff
  /\ cl = ControlOff
  /\ reloadCh = FALSE
  /\ ProcIdle

(* Run: the workload has enrolled at time 0 and starts its two loops *)
WorkloadRun(role) ==
  LET cert == EnrolledCert(role)
      certInfo == cert.Certificate
  IN  /\ store = NewCertStore(cert, NoLeaf, certInfo.notAfter)
      /\ rl = [RenewalOff EXCEPT !.pc = "sched", !.role = role,
                 !.totalTTL = certInfo.notAfter - certInfo.notBefore]
      /\ cl = [ControlOff EXCEPT !.pc = "dial", !.backoff = 2]
      /\ reloadCh = FALSE
      /\ ProcIdle

----------------------------------------------------------------------------
(* Presence: heartbeats recorded by the Controller and the admin listing *)

OnlineWindow == 30

(* Seconds in one unit of `now` wherever presence is classified: the     *)
(* period of the Connector's heartbeat ticker                            *)
PresenceUnit == 10

(* a.Sub(b), in seconds *)
Sub(a, b) == (a - b) * PresenceUnit

RecordHeartbeat_AlwaysIP(reg, id, privateIP, t) ==
  LET rec == IF id \in DOMAIN reg THEN reg[id]
             ELSE [ID |-> id, PrivateIP |-> "", Version |-> "", LastSeen |-> ZeroTime]
  IN  Put(reg, id, [rec EXCEPT !.PrivateIP = privateIP, !.LastSeen = t])

(* Registry.RecordHeartbeat at time t *)
RecordHeartbeat(reg, id, privateIP, t) ==
  LET rec == IF id \in DOMAIN reg THEN reg[id]
             ELSE [ID |-> id, PrivateIP |-> "", Version |-> "", LastSeen |-> ZeroTime]
  IN  Put(reg, id, [rec EXCEPT
                      !.PrivateIP = IF privateIP # "" THEN privateIP ELSE @,
                      !.LastSeen = t])

(* TunnelerStatusRegistry.Record at time t *)
Record(ts, id, spiffeID, connectorID, t) ==
  IF id = "" THEN ts
  ELSE LET rec == IF id \in DOMAIN ts THEN ts[id]
                  ELSE [ID |-> id, SPIFFEID |-> EmptySpiffe, ConnectorID |-> "",
                        LastSeen |-> ZeroTime]
       IN  Put(ts, id, [rec EXCEPT
                          !.SPIFFEID = IF spiffeID # EmptySpiffe THEN spiffeID ELSE @,
                          !.ConnectorID = IF connectorID # "" THEN connectorID ELSE @,
                          !.LastSeen = t])

UnmarshalStatus(payload) ==
  IF ~payload.json
  THEN [err |-> TRUE, TunnelerID |-> "", SPIFFEID |-> EmptySpiffe, ConnectorID |-> ""]
  ELSE [err |-> FALSE, TunnelerID |-> payload.tunneler_id,
        SPIFFEID |-> payload.spiffe_id, ConnectorID |-> payload.connector_id]

(* humanizeDuration of d seconds *)
humanizeDuration(d) ==
  LET seconds == IF d < 0 THEN 0 ELSE d
  IN  IF seconds < 5 THEN <<"just now">>
      ELSE IF seconds < 60 THEN <<seconds, "seconds ago">>
      ELSE IF seconds < 3600 THEN <<seconds \div 60, "minutes ago">>
      ELSE IF seconds < 86400 THEN <<seconds \div 3600, "hours ago">>
      ELSE <<seconds \div 86400, "days ago">>

StatusOf_Inclusive(age) == IF age <= OnlineWindow THEN "ONLINE" ELSE "OFFLINE"

(* The status both listings give a record seen age seconds ago *)
StatusOf(age) == IF age < OnlineWindow THEN "ONLINE" ELSE "OFFLINE"

(* handleListConnectors at time t: the entries of the response *)
handleListConnectors(reg, t) ==
  {[ID |-> reg[id].ID, Status |-> StatusOf(Sub(t, reg[id].LastSeen)),
    PrivateIP |-> reg[id].PrivateIP,
    LastSeen |-> humanizeDuration(Sub(t, reg[id].LastSeen)),
    Version |-> reg[id].Version] : id \in DOMAIN reg}

(* handleListTunnelers at time t *)
handleListTunnelers(ts, t) ==
  {[ID |-> ts[id].ID, Status |-> StatusOf(Sub(t, ts[id].LastSeen)),
    ConnectorID |-> ts[id].ConnectorID,
    LastSeen |-> humanizeDuration(Sub(t, ts[id].LastSeen))] : id \in DOMAIN ts}

(* What was last observed of presence: the message the Controller handled *)
(* and the SPIFFE id of the stream it came on, or the listing the          *)
(* Controller answered, and the ids a listing has shown OFFLINE            *)
Observed(op, peer, msg, resp, at, off) ==
  [op |-> op, peer |-> peer, msg |-> msg, resp |-> resp, at |-> at, off |-> off]

NoObserved == Observed("none", EmptySpiffe, NoWire, {}, 0, {})

InitStores ==
  /\ now \in 0..MaxTime
  /\ tokens = <<>>
  /\ handed = {}
  /\ wins = [t \in TokenValues |-> 0]
  /\ registry = <<>>
  /\ tunnelers = [byID |-> <<>>, order |-> <<>>]
  /\ clients = <<>>
  /\ stream = [s \in StreamIds |-> IdleStream]
  /\ notif = [t \in ValidIDs |-> IdleNotify]
  /\ allow = [k \in ConnectorIds |-> {}]
  /\ session = [k \in ConnectorIds |-> 0]
  /\ last = NoOutcome
  /\ file = NoFile
  /\ tunnelerStatus = <<>>
  /\ obs = NoObserved

(* The state after main has built the servers, with a token store *)
Init == InitStores /\ tokenStoreSet = TRUE /\ WorkloadIdle

----------------------------------------------------------------------------
(* Clock and token administration *)

Tick ==
  /\ now < MaxTime
  /\ now' = now + 1
  /\ last' = NoOutcome
  /\ UNCHANGED <<cfgVars, presVars, wlVars, tokVars, registry, tunnelers, notif, ctlVars>>

Won(token) ==
  IF token \in TokenValues
  THEN [wins EXCEPT ![token] = IF @ < WinCap THEN @ + 1 ELSE @]
  ELSE wins

(* TokenStore.CreateToken, called by the admin endpoint *)
CreateToken(token, saveErr) ==
  /\ hashToken(token) \notin DOMAIN tokens
  /\ tokens' = Put(tokens, hashToken(token), CreateTokenRecord(token, now))
  /\ handed' = IF saveLocked(TokenStorePath, saveErr)
                THEN handed \cup {token} ELSE handed
  /\ file' = WriteFile(TokenStorePath, file, tokens', saveErr)
  /\ last' = NoOutcome
  /\ UNCHANGED <<now, cfgVars, presVars, wlVars, wins, registry, tunnelers, notif, ctlVars>>

(* POST /api/internal/consume-token *)
handleConsumeToken(token, connectorID, saveErr) ==
  /\ token \in handed \cup {"", "bogus"}
  /\ LET req == Req(connectorID, EmptyKey, token, "", "") IN
     IF connectorID = ""
     THEN /\ last' = Outcome("ConsumeToken", NoCert, req, TRUE, "BadRequest", NoIssued)
          /\ UNCHANGED tokVars
     ELSE LET c == ConsumeToken(tokens, token, connectorID, now, saveErr) IN
          /\ tokens' = c.tokens
          /\ wins' = IF c.ok THEN Won(token) ELSE wins
          /\ file' = WriteFile(TokenStorePath, file, c.tokens, ~c.ok)
          /\ UNCHANGED handed
          /\ last' = Outcome("ConsumeToken", NoCert, req, TRUE,
                             IF c.ok THEN "OK" ELSE "Unauthorized", NoIssued)
  /\ UNCHANGED <<now, cfgVars, presVars, wlVars, registry, tunnelers, notif, ctlVars>>

----------------------------------------------------------------------------
(* Unary RPCs of the EnrollmentService, behind UnaryAuthInterceptor *)

Rejected(m, peer, req) ==
  /\ last' = Outcome(m, peer, req, FALSE, "Unknown", NoIssued)
  /\ UNCHANGED <<now, cfgVars, presVars, wlVars, tokVars, registry, tunnelers, notif, ctlVars>>

EnrollConnectorCall(peer, req, saveErr) ==
  /\ req.token \in handed \cup {"", "bogus"}
  /\ LET ic == UnaryAuthInterceptor("EnrollConnector", peer) IN
     IF ~ic.invoked THEN Rejected("EnrollConnector", peer, req)
     ELSE LET r == EnrollConnector(req, saveErr) IN
          /\ tokens' = r.tokens
          /\ wins' = IF r.code = "OK" THEN Won(req.token) ELSE wins
          /\ file' = WriteFile(TokenStorePath, file, r.tokens, ~r.consumed)
          /\ registry' = r.registry
          /\ last' = Outcome("EnrollConnector", peer, req, TRUE, r.code, r.cert)
          /\ UNCHANGED <<now, cfgVars, presVars, wlVars, handed, tunnelers, notif, ctlVars>>

(* The streams that are connected: accepted, not yet ended by the Connector *)
Connected ==
  {s \in StreamIds : stream[s].pc \in {"added", "listed", "loop"} /\ stream[s].alive}

(* The connected streams whose snapshot has been taken already: they learn *)
(* of a tunneler enrolled now from its tunneler_allow only.                *)
NeedDelta == {s \in Connected : stream[s].pc \in {"listed", "loop"}}

(* EnrollTunneler up to and including the copy broadcast takes of clients; *)
(* the sends follow in BroadcastSend.                                      *)
EnrollTunnelerCall(peer, req, saveErr) ==
  /\ req.token \in handed \cup {"", "bogus"}
  /\ LET ic == UnaryAuthInterceptor("EnrollTunneler", peer) IN
     IF ~ic.invoked THEN Rejected("EnrollTunneler", peer, req)
     ELSE LET r == EnrollTunneler(req, saveErr) IN
          /\ r.notify => notif[req.id].pc # "sending"
          /\ tokens' = r.tokens
          /\ wins' = IF r.code = "OK" THEN Won(req.token) ELSE wins
          /\ file' = WriteFile(TokenStorePath, file, r.tokens, ~r.consumed)
          /\ last' = Outcome("EnrollTunneler", peer, req, TRUE, r.code, r.cert)
          /\ IF r.notify
             THEN LET targets == {clients[c] : c \in DOMAIN clients} IN
                  /\ tunnelers' = TunnelerAdd(tunnelers, req.id,
                                              SpiffeID(TrustDomain, "tunneler", req.id))
                  /\ notif' = [notif EXCEPT ![req.id] =
                                 [pc |-> IF targets = {} THEN "done" ELSE "sending",
                                  msg |-> ControlMessage("tunneler_allow",
                                            MarshalInfo([ID |-> req.id,
                                              SPIFFEID |-> SpiffeID(TrustDomain, "tunneler", req.id)])),
                                  targets |-> targets, owed |-> NeedDelta]]
             ELSE UNCHANGED <<tunnelers, notif>>
          /\ UNCHANGED <<now, cfgVars, presVars, wlVars, handed, registry, ctlVars>>

RenewCall(peer, req) ==
  LET ic == UnaryAuthInterceptor("Renew", peer) IN
  IF ~ic.invoked THEN Rejected("Renew", peer, req)
  ELSE LET r == Renew(ic.ctx, req) IN
       /\ last' = Outcome("Renew", peer, req, TRUE, r.code, r.cert)
       /\ UNCHANGED <<now, cfgVars, presVars, wlVars, tokVars, registry, tunnelers, notif, ctlVars>>

----------------------------------------------------------------------------
(* ControlPlane.Connect on the Controller, one action per step of the      *)
(* handler between two lock acquisitions, and the Connector at the other   *)
(* end of the stream.                                                      *)

(* stream.Send on stream s: the message is lost once the Connector is gone. *)
(* first and deltas keep what has gone out on the stream.                   *)
Send(s, msg) ==
  IF ~stream[s].alive THEN stream[s]
  ELSE [stream[s] EXCEPT
          !.q = Append(@, msg),
          !.first = IF @ = "none" THEN msg.type ELSE @,
          !.deltas = IF msg.type = "tunneler_allow"
                     THEN @ \cup {msg.payload.tunneler_id} ELSE @]

(* Connect up to and including addClient *)
ConnectOpen(s, peer) ==
  /\ stream[s].pc = "idle"
  /\ \A r \in StreamIds : r < s => stream[r].pc # "idle"
  /\ LET ic == StreamSPIFFEInterceptor(peer) IN
     IF ~ic.invoked
     THEN /\ last' = Outcome("Connect", peer, NoRequest, FALSE, "Unknown", NoIssued)
          /\ UNCHANGED ctlVars
     ELSE IF ic.ctx.role # "connector"
     THEN /\ last' = Outcome("Connect", peer, NoRequest, TRUE, "PermissionDenied", NoIssued)
          /\ UNCHANGED ctlVars
     ELSE LET k == ic.ctx.spiffeID.parts[2] IN
          /\ k \in ConnectorIds
          /\ session[k] = 0
          /\ clients' = Put(clients, ic.ctx.spiffeID, s)
          /\ stream' = [stream EXCEPT ![s] =
                          [IdleStream EXCEPT !.pc = "added",
                                             !.owner = ic.ctx.spiffeID,
                                             !.alive = TRUE]]
          /\ session' = [session EXCEPT ![k] = s]
          /\ last' = NoOutcome
          /\ UNCHANGED allow
  /\ UNCHANGED <<now, cfgVars, presVars, wlVars, tokVars, registry, tunnelers, notif>>

(* sendAllowlist: s.tunnelers.List() *)
ConnectList(s) ==
  /\ stream[s].pc = "added"
  /\ stream' = [stream EXCEPT ![s].pc = "listed",
                              ![s].snap = TunnelerList(tunnelers)]
  /\ last' = NoOutcome
  /\ UNCHANGED <<now, cfgVars, presVars, wlVars, tokVars, registry, tunnelers, notif, clients, allow, session>>

(* sendAllowlist: the Send of the list taken by ConnectList *)
ConnectSendSnapshot(s) ==
  /\ stream[s].pc = "listed"
  /\ LET msg == ControlMessage("tunneler_allowlist", MarshalList(stream[s].snap)) IN
     stream' = [stream EXCEPT ![s] =
                  [Send(s, msg) EXCEPT
                     !.pc = "loop",
                     !.stale = stream[s].snap # TunnelerList(tunnelers),
                     !.snap = <<>>]]
  /\ last' = NoOutcome
  /\ UNCHANGED <<now, cfgVars, presVars, wlVars, tokVars, registry, tunnelers, notif, clients, allow, session>>

(* broadcast: one Send of the loop over the copy taken of clients *)
BroadcastSend(t, s) ==
  /\ notif[t].pc = "sending"
  /\ s \in notif[t].targets
  /\ stream' = [stream EXCEPT ![s] = Send(s, notif[t].msg)]
  /\ notif' = [notif EXCEPT ![t].targets = @ \ {s},
                            ![t].pc = IF notif[t].targets = {s} THEN "done" ELSE @]
  /\ last' = NoOutcome
  /\ UNCHANGED <<now, cfgVars, presVars, wlVars, tokVars, registry, tunnelers, clients, allow, session>>

(* The Controller's Recv fails once the Connector is gone: Connect returns *)
(* and the deferred removeClient(spiffeID) runs.                           *)
ConnectReturn(s) ==
  /\ stream[s].pc = "loop"
  /\ ~stream[s].alive
  /\ clients' = [c \in DOMAIN clients \ {stream[s].owner} |-> clients[c]]
  /\ stream' = [stream EXCEPT ![s] = [IdleStream EXCEPT !.pc = "done"]]
  /\ last' = NoOutcome
  /\ UNCHANGED <<now, cfgVars, presVars, wlVars, tokVars, registry, tunnelers, notif, allow, session>>

(* connectControlPlane: the next message of the stream is handled *)
ConnectorRecv(k) ==
  /\ session[k] # 0
  /\ stream[session[k]].q # <<>>
  /\ allow' = [allow EXCEPT ![k] =
                 handleControlMessage(Head(stream[session[k]].q), @)]
  /\ stream' = [stream EXCEPT ![session[k]].q = Tail(@)]
  /\ last' = NoOutcome
  /\ UNCHANGED <<now, cfgVars, presVars, wlVars, tokVars, registry, tunnelers, notif, clients, session>>

(* The session of connector k ends: its stream is closed, what was in      *)
(* flight is lost, the allowlist stays as it is.                           *)
ConnectorDisconnect(k) ==
  /\ session[k] # 0
  /\ stream' = [stream EXCEPT ![session[k]].alive = FALSE,
                              ![session[k]].q = <<>>]
  /\ session' = [session EXCEPT ![k] = 0]
  /\ last' = NoOutcome
  /\ UNCHANGED <<now, cfgVars, presVars, wlVars, tokVars, registry, tunnelers, notif, clients, allow>>

(* A peer opens a stream on the inbound server of connector k *)
TunnelerConnect(k, peer) ==
  /\ LET ic == StreamInterceptorWithAllowlist(peer, allow[k]) IN
     last' = [Outcome("TunnelerConnect", peer, NoRequest, ic.invoked,
                      IF ic.invoked THEN "OK" ELSE "Unknown", NoIssued)
                EXCEPT !.at = k]
  /\ UNCHANGED <<now, cfgVars, presVars, wlVars, tokVars, registry, tunnelers, notif, ctlVars>>

----------------------------------------------------------------------------
(* Spec: the token store and the two enrollment RPCs, as time passes *)

CertFor(role, id) == PeerCert(<<SpiffeID(TrustDomain, role, id)>>)

PresentedTokens == TokenValues \cup {"", "bogus"}

TokPeers == {NoCert, CertFor("connector", "c1")}

ConnectorRequests ==
  {Req("c1", GoodKey, token, "10.0.0.5", "1.0") : token \in PresentedTokens}
  \cup {Req("c1", DSAKey, token, "10.0.0.5", "1.0") : token \in TokenValues}
  \cup {Req("", GoodKey, token, "10.0.0.5", "1.0") : token \in TokenValues}

TunnelerRequests ==
  {Req("t1", GoodKey, token, "", "") : token \in PresentedTokens}
  \cup {Req("t1", DSAKey, token, "", "") : token \in TokenValues}
  \cup {Req("a/b", GoodKey, token, "", "") : token \in TokenValues}

Next ==
  \/ Tick
  \/ \E token \in TokenValues, saveErr \in BOOLEAN : CreateToken(token, saveErr)
  \/ \E token \in PresentedTokens, id \in {"c1", "t1", ""}, saveErr \in BOOLEAN :
        handleConsumeToken(token, id, saveErr)
  \/ \E req \in ConnectorRequests, saveErr \in BOOLEAN :
        EnrollConnectorCall(NoCert, req, saveErr)
  \/ \E peer \in TokPeers, req \in TunnelerRequests, saveErr \in BOOLEAN :
        EnrollTunnelerCall(peer, req, saveErr)

Spec == Init /\ [][Next]_vars

----------------------------------------------------------------------------
(* SpecStore: the token store alone, with restarts of the Controller *)

(* The Controller starts again: NewTokenStore makes an empty map and      *)
(* loads the file; the registries and the streams start empty             *)
Restart ==
  /\ tokens' = load(TokenStorePath, file)
  /\ registry' = <<>>
  /\ tunnelers' = [byID |-> <<>>, order |-> <<>>]
  /\ tunnelerStatus' = <<>>
  /\ clients' = <<>>
  /\ stream' = [s \in StreamIds |-> IdleStream]
  /\ notif' = [t \in ValidIDs |-> IdleNotify]
  /\ session' = [k \in ConnectorIds |-> 0]
  /\ last' = NoOutcome
  /\ UNCHANGED <<now, cfgVars, wlVars, handed, wins, file, allow, obs>>

NextStore ==
  \/ Tick
  \/ \E token \in TokenValues, saveErr \in BOOLEAN : CreateToken(token, saveErr)
  \/ \E token \in PresentedTokens, id \in {"c1", "t1", ""}, saveErr \in BOOLEAN :
        handleConsumeToken(token, id, saveErr)
  \/ Restart

SpecStore == Init /\ [][NextStore]_vars

(* Time passes and every call that can be made is made *)
SpecStoreLive == SpecStore /\ WF_vars(NextStore)

----------------------------------------------------------------------------
(* SpecAuth: the interceptor and Renew under arbitrary peer certificates *)

AuthPeers ==
  { NoCert,
    CertFor("connector", "c1"), CertFor("tunneler", "t1"),
    CertFor("controller", "default"), CertFor("admin", "c1"),
    CertFor("connector", ""), CertFor("", "c1"),
    PeerCert(<<URI("spiffe", TrustDomain, <<"connector">>)>>),
    PeerCert(<<URI("spiffe", TrustDomain, <<"connector", "c1", "x">>)>>),
    PeerCert(<<SpiffeID("other.internal", "connector", "c1")>>),
    PeerCert(<<URI("https", TrustDomain, <<"connector", "c1">>)>>),
    PeerCert(<<>>),
    PeerCert(<<SpiffeID(TrustDomain, "connector", "c1"),
               SpiffeID(TrustDomain, "connector", "c2")>>) }

RenewRequests ==
  {Req(id, pk, "", "", "") : id \in {"c1", "t1", "", LongID},
                             pk \in {GoodKey, JunkKey, DSAKey}}

AuthConnectorRequests ==
  {Req("c1", GoodKey, "tokA", ip, "1.0") : ip \in {"10.0.0.5", "not-an-ip"}}

AuthTunnelerRequests == {Req("t1", GoodKey, "tokA", "", "")}

NextAuth ==
  \/ \E saveErr \in BOOLEAN : CreateToken("tokA", saveErr)
  \/ \E peer \in TokPeers, req \in AuthConnectorRequests :
        EnrollConnectorCall(peer, req, FALSE)
  \/ \E peer \in AuthPeers, req \in AuthTunnelerRequests :
        EnrollTunnelerCall(peer, req, FALSE)
  \/ \E peer \in AuthPeers, req \in RenewRequests : RenewCall(peer, req)

SpecAuth == Init /\ [][NextAuth]_vars

----------------------------------------------------------------------------
(* SpecCtl: control streams of two Connectors while a tunneler enrolls *)

TunnelerIds == {"t1"}

InitCtl == Init /\ now = 0

EnrollOnce(t) ==
  /\ t \notin DOMAIN tunnelers.byID
  /\ EnrollTunnelerCall(CertFor("connector", "c1"),
                        Req(t, GoodKey, "tokA", "", ""), FALSE)

NextCtl ==
  \/ CreateToken("tokA", FALSE)
  \/ \E t \in TunnelerIds : EnrollOnce(t)
  \/ \E s \in StreamIds, k \in ConnectorIds : ConnectOpen(s, CertFor("connector", k))
  \/ \E s \in StreamIds : ConnectList(s)
  \/ \E s \in StreamIds : ConnectSendSnapshot(s)
  \/ \E t \in TunnelerIds, s \in StreamIds : BroadcastSend(t, s)
  \/ \E s \in StreamIds : ConnectReturn(s)
  \/ \E k \in ConnectorIds : ConnectorRecv(k)
  \/ \E k \in ConnectorIds : ConnectorDisconnect(k)

SpecCtl == InitCtl /\ [][NextCtl]_vars

----------------------------------------------------------------------------
(* SpecGate: who gets through the interceptors of the Controller's stream  *)
(* and of the inbound server of Connector c1, as its allowlist changes     *)

CtlPeers == {CertFor("connector", "c1"), CertFor("tunneler", "t1"), NoCert}

InboundPeers ==
  {CertFor("tunneler", "t1"), CertFor("tunneler", "t2"),
   CertFor("connector", "c1"), NoCert}

NextGate ==
  \/ CreateToken("tokA", FALSE)
  \/ \E t \in TunnelerIds : EnrollOnce(t)
  \/ \E s \in StreamIds, peer \in CtlPeers : ConnectOpen(s, peer)
  \/ \E s \in StreamIds : ConnectList(s)
  \/ \E s \in StreamIds : ConnectSendSnapshot(s)
  \/ \E t \in TunnelerIds, s \in StreamIds : BroadcastSend(t, s)
  \/ \E s \in StreamIds : ConnectReturn(s)
  \/ ConnectorRecv("c1")
  \/ ConnectorDisconnect("c1")
  \/ \E k \in ConnectorIds, peer \in InboundPeers : TunnelerConnect(k, peer)

SpecGate == InitCtl /\ [][NextGate]_vars

----------------------------------------------------------------------------
(* SpecStatus: the three unary RPCs under every kind of failing request,   *)
(* with and without a token store                                          *)

InitStatus == InitStores /\ tokenStoreSet \in BOOLEAN /\ WorkloadIdle

(* One request per failing check, and requests failing two checks at once *)
StatusConnectorRequests ==
  { Req("c1", GoodKey, "tokA", "10.0.0.5", "1.0"),
    Req("", GoodKey, "tokA", "10.0.0.5", "1.0"),
    Req("c1", GoodKey, "tokA", "", "1.0"),
    Req("c1", GoodKey, "tokA", "10.0.0.5", ""),
    Req("c1", JunkKey, "tokA", "10.0.0.5", "1.0"),
    Req("c1", GoodKey, "bogus", "10.0.0.5", "1.0"),
    Req("c1", GoodKey, "", "10.0.0.5", "1.0"),
    Req("c1", DSAKey, "tokA", "10.0.0.5", "1.0"),
    Req("", JunkKey, "bogus", "", ""),
    Req("c1", JunkKey, "bogus", "10.0.0.5", "1.0"),
    Req("c1", DSAKey, "bogus", "10.0.0.5", "1.0") }

StatusTunnelerRequests ==
  { Req("t1", GoodKey, "tokA", "", ""),
    Req("a/b", GoodKey, "tokA", "", ""),
    Req("t1", GoodKey, "", "", ""),
    Req("t1", EmptyKey, "tokA", "", ""),
    Req("t1", GoodKey, "bogus", "", ""),
    Req("t1", DSAKey, "tokA", "", ""),
    Req("a/b", EmptyKey, "", "", ""),
    Req("t1", EmptyKey, "bogus", "", ""),
    Req("t1", DSAKey, "bogus", "", "") }

StatusPeers ==
  {CertFor("connector", "c1"), CertFor("tunneler", "t1"), CertFor("connector", "")}

NextStatus ==
  \/ Tick
  \/ CreateToken("tokA", FALSE)
  \/ \E req \in StatusConnectorRequests : EnrollConnectorCall(NoCert, req, FALSE)
  \/ \E req \in StatusTunnelerRequests :
        EnrollTunnelerCall(CertFor("connector", "c1"), req, FALSE)
  \/ \E peer \in StatusPeers, req \in RenewRequests : RenewCall(peer, req)

SpecStatus == InitStatus /\ [][NextStatus]_vars

----------------------------------------------------------------------------
(* The workload's two loops: renewalLoop and controlPlaneLoop *)

MaxRenewals == 2

srvVars == <<now, cfgVars, presVars, tokVars, registry, tunnelers, notif, ctlVars,
            last>>

Max(a, b) == IF a >= b THEN a ELSE b

(* renewalLoop: next := nextRenewal(store.NotAfter(), totalTTL) *)
RenewalSchedule ==
  /\ rl.pc = "sched"
  /\ rl' = [rl EXCEPT !.pc = "wait",
                      !.next = nextRenewal(wnow, NotAfter(store), rl.totalTTL),
                      !.resp = NoResponse, !.presented = NoTLSCert]
  /\ UNCHANGED <<wnow, store, cl, reloadCh, procVars, wlog, srvVars>>

(* renewalLoop: the timer set for next fires *)
RenewalTimer ==
  /\ rl.pc = "wait"
  /\ rl.n < MaxRenewals
  /\ wnow' = Max(wnow, rl.next)
  /\ rl' = [rl EXCEPT !.pc = "renew"]
  /\ UNCHANGED <<store, cl, reloadCh, procVars, wlog, srvVars>>

(* renewalLoop: renewOnce dials with the store's certificate and calls  *)
(* Renew; an error is logged and the loop goes back to its top          *)
RenewOnceCall(resp) ==
  /\ rl.pc = "renew"
  /\ LET r == renewOnce(PinnedCA, rl.n + 1, wnow, rl.role, resp)
     IN  /\ rl' = [rl EXCEPT !.n = rl.n + 1, !.resp = resp,
                             !.presented = Deref(GetClientCertificate(store), store),
                             !.new = r,
                             !.pc = IF r.err THEN "sched" ELSE "update"]
         /\ wlog' = IF r.err
                    THEN Append(wlog, LogLine(rl.n + 1, RenewalFailedEvent,
                                              renewError(PinnedCA, resp)))
                    ELSE wlog
  /\ UNCHANGED <<wnow, store, cl, reloadCh, procVars, srvVars>>

(* store.Update takes the lock and copies the certificate into s.cert;  *)
(* the copy writes the chain and the key one after the other, in an     *)
(* order the build chooses                                               *)
RenewalUpdateBegin(f) ==
  /\ rl.pc = "update"
  /\ store' = [store EXCEPT !.cert[f] = rl.new.cert[f]]
  /\ rl' = [rl EXCEPT !.pc = "locked"]
  /\ UNCHANGED <<wnow, cl, reloadCh, procVars, wlog, srvVars>>

RenewalUpdateEnd_Reload ==
  /\ rl.pc = "locked"
  /\ store' = Update(store, rl.new.cert, rl.new.certPEM, rl.new.notAfter)
  /\ rl' = [rl EXCEPT !.pc = "sched",
                      !.totalTTL = rl.new.notAfter - rl.new.notBefore,
                      !.done = rl.new.cert.Certificate.gen,
                      !.new = RenewFailed, !.presented = NoTLSCert]
  /\ reloadCh' = TRUE
  /\ UNCHANGED <<wnow, cl, procVars, wlog, srvVars>>

(* store.Update finishes and releases the lock; renewalLoop takes the   *)
(* new total lifetime and goes back to the top of the loop              *)
RenewalUpdateEnd ==
  /\ rl.pc = "locked"
  /\ store' = Update(store, rl.new.cert, rl.new.certPEM, rl.new.notAfter)
  /\ rl' = [rl EXCEPT !.pc = "sched",
                      !.totalTTL = rl.new.notAfter - rl.new.notBefore,
                      !.done = rl.new.cert.Certificate.gen,
                      !.new = RenewFailed, !.presented = NoTLSCert]
  /\ UNCHANGED <<wnow, cl, reloadCh, procVars, wlog, srvVars>>

(* connectControlPlane: the handshake calls GetClientCertificate under  *)
(* the read lock                                                         *)
CtlHandshakeStart ==
  /\ cl.pc = "dial"
  /\ ~ctxDone
  /\ rl.pc # "locked"
  /\ cl' = [cl EXCEPT !.pc = "sendcert", !.ptr = GetClientCertificate(store),
                      !.floor = rl.done]
  /\ UNCHANGED <<wnow, store, rl, reloadCh, procVars, wlog, srvVars>>

(* the handshake reads the chain through the reference *)
CtlSendCertificate ==
  /\ cl.pc = "sendcert"
  /\ cl' = [cl EXCEPT !.pc = "sign", !.chain = Deref(cl.ptr, store).Certificate]
  /\ UNCHANGED <<wnow, store, rl, reloadCh, procVars, wlog, srvVars>>

(* the handshake reads the private key through the reference and signs; *)
(* the peer accepts a signature made by the key of the chain it was sent *)
CtlSign ==
  /\ cl.pc = "sign"
  /\ LET key == Deref(cl.ptr, store).PrivateKey
     IN  cl' = [cl EXCEPT !.key = key,
                          !.pc = IF key = cl.chain.gen THEN "connected"
                                 ELSE "rejected"]
  /\ UNCHANGED <<wnow, store, rl, reloadCh, procVars, wlog, srvVars>>

SessionPcs == {"dial", "sendcert", "sign", "connected", "rejected", "select"}

(* controlPlaneLoop: the session ends with an error, or a signal on     *)
(* reloadCh cancels it, or the context of Run is done and the loop      *)
(* returns; the session's receive goroutine is left where it is          *)
CtlSessionEnd(cause) ==
  /\ cl.pc \in SessionPcs
  /\ cause = "reload" => reloadCh
  /\ cause = "cancel" => ctxDone
  /\ cl' = [ControlOff EXCEPT !.pc = IF cause = "cancel" THEN "exited" ELSE "wait",
                              !.backoff = cl.backoff]
  /\ reloadCh' = IF cause = "reload" THEN FALSE ELSE reloadCh
  /\ rx' = IF rx.pc = "off" THEN rx ELSE [rx EXCEPT !.over = TRUE]
  /\ UNCHANGED <<wnow, store, rl, ctxDone, sendCh, th, wlog, srvVars>>

CtlBackoff_GiveUp ==
  /\ cl.pc = "wait"
  /\ cl' = IF cl.backoff < ThirtySeconds
           THEN [cl EXCEPT !.pc = "dial", !.backoff = cl.backoff * 2]
           ELSE [cl EXCEPT !.pc = "exited"]
  /\ UNCHANGED <<wnow, store, rl, reloadCh, procVars, wlog, srvVars>>

(* controlPlaneLoop: wait backoff, then double it while under 30 s *)
CtlBackoff ==
  /\ cl.pc = "wait"
  /\ cl' = [cl EXCEPT !.pc = "dial",
                      !.backoff = IF cl.backoff < ThirtySeconds
                                  THEN cl.backoff * 2 ELSE cl.backoff]
  /\ UNCHANGED <<wnow, store, rl, reloadCh, procVars, wlog, srvVars>>

Responses ==
  {Response(TRUE, EmptyCA, "none", 0)} \cup
  {Response(FALSE, ca, "cert", 1) :
     ca \in {PinnedCA, ReencodedCA, OtherCA, JunkCA, EmptyCA}} \cup
  {Response(FALSE, PinnedCA, pem, 1) : pem \in {"junk", "badder"}} \cup
  {Response(FALSE, PinnedCA, "cert", uris) : uris \in {0, 2}}

CertFields == {"Certificate", "PrivateKey"}

InitRenew ==
  /\ InitStores /\ now = 0 /\ tokenStoreSet = TRUE
  /\ wnow = 0
  /\ WorkloadRun("connector")

NextRenew ==
  \/ RenewalSchedule
  \/ RenewalTimer
  \/ \E resp \in Responses : RenewOnceCall(resp)
  \/ \E f \in CertFields : RenewalUpdateBegin(f)
  \/ RenewalUpdateEnd
  \/ CtlHandshakeStart
  \/ CtlSendCertificate
  \/ CtlSign
  \/ \E cause \in {"error", "reload"} : CtlSessionEnd(cause)
  \/ CtlBackoff

SpecRenew == InitRenew /\ [][NextRenew]_vars

(* The connector of working-backend/connector/run/run.go, whose          *)
(* renewalLoop puts a signal on reloadCh after each swap                 *)
NextReload ==
  \/ RenewalSchedule
  \/ RenewalTimer
  \/ \E resp \in Responses : RenewOnceCall(resp)
  \/ \E f \in CertFields : RenewalUpdateBegin(f)
  \/ RenewalUpdateEnd_Reload
  \/ CtlHandshakeStart
  \/ CtlSendCertificate
  \/ CtlSign
  \/ \E cause \in {"error", "reload"} : CtlSessionEnd(cause)
  \/ CtlBackoff

SpecReload == InitRenew /\ [][NextReload]_vars

(* The scheduler alone: a workload of either role whose renewal loop    *)
(* reaches the top of the loop at some time after enrollment            *)
SchedNows == {0, 100, 182, 183, 192, 290, 300, 310, 1292, 1800, 2000}
SchedRoles == {"connector", "tunneler"}

InitSched ==
  /\ InitStores /\ now = 0 /\ tokenStoreSet = TRUE
  /\ wnow \in SchedNows
  /\ \E role \in SchedRoles : WorkloadRun(role)

NextSched ==
  \/ RenewalSchedule
  \/ RenewalTimer
  \/ \E resp \in Responses : RenewOnceCall(resp)
  \/ \E f \in CertFields : RenewalUpdateBegin(f)
  \/ RenewalUpdateEnd

SpecSched == InitSched /\ [][NextSched]_vars

----------------------------------------------------------------------------
(* The tasks of the Connector: the control-stream loop with its session   *)
(* and receive goroutine, the relay buffer, an inbound tunneler stream    *)

(* make(chan *ControlMessage, 16) *)
SendCap == 16

(* make(chan *ControlMessage, 1) *)
RecvCap == 1

(* The receive goroutine holds a message and recvCh has no room for it *)
Blocked(r) == r.pc = "send" /\ r.recvCh = RecvCap

(* The context of Run is cancelled *)
Cancel ==
  /\ ~ctxDone
  /\ ctxDone' = TRUE
  /\ UNCHANGED <<wnow, store, rl, cl, reloadCh, rx, sendCh, th, wlog, srvVars>>

(* controlPlaneLoop: ctx.Done() at the top of the loop or during the wait *)
CtlExit ==
  /\ cl.pc \in {"dial", "wait"}
  /\ ctxDone
  /\ cl' = [cl EXCEPT !.pc = "exited"]
  /\ UNCHANGED <<wnow, store, rl, reloadCh, procVars, wlog, srvVars>>

(* connectControlPlane going on to its select without the hello *)
CtlHello_NoHello ==
  /\ cl.pc = "connected"
  /\ cl' = [cl EXCEPT !.pc = "select"]
  /\ rx' = [RecvOff EXCEPT !.pc = "recv", !.leaked = rx.leaked \/ Blocked(rx)]
  /\ UNCHANGED <<wnow, store, rl, reloadCh, ctxDone, sendCh, th, wlog, srvVars>>

(* connectControlPlane: connector_hello is sent, recvCh and recvErr are   *)
(* made and the receive goroutine starts; the goroutine of the session    *)
(* before stays behind if it is blocked                                   *)
CtlHello ==
  /\ cl.pc = "connected"
  /\ cl' = [cl EXCEPT !.pc = "select",
                      !.hellos = @ + 1,
                      !.first = IF @ = "" THEN Hello(rl.role).type ELSE @,
                      !.sent = Hello(rl.role)]
  /\ rx' = [RecvOff EXCEPT !.pc = "recv", !.leaked = rx.leaked \/ Blocked(rx)]
  /\ UNCHANGED <<wnow, store, rl, reloadCh, ctxDone, sendCh, th, wlog, srvVars>>

(* the goroutine: stream.Recv() returns a message, or an error once the   *)
(* stream fails or the session has returned                               *)
RxRecv(ok) ==
  /\ rx.pc = "recv"
  /\ ok => ~rx.over
  /\ rx' = IF ok THEN [rx EXCEPT !.pc = "send"]
           ELSE [rx EXCEPT !.pc = "done", !.recvErr = 1]
  /\ UNCHANGED <<wnow, store, rl, cl, reloadCh, ctxDone, sendCh, th, wlog, srvVars>>

(* the goroutine: recvCh <- msg *)
RxSend ==
  /\ rx.pc = "send"
  /\ rx.recvCh < RecvCap
  /\ rx' = [rx EXCEPT !.pc = "recv", !.recvCh = rx.recvCh + 1]
  /\ UNCHANGED <<wnow, store, rl, cl, reloadCh, ctxDone, sendCh, th, wlog, srvVars>>

(* the select of the session: case msg := <-recvCh *)
SelectRecv ==
  /\ cl.pc = "select"
  /\ rx.recvCh > 0
  /\ rx' = [rx EXCEPT !.recvCh = rx.recvCh - 1]
  /\ UNCHANGED <<wnow, store, rl, cl, reloadCh, ctxDone, sendCh, th, wlog, srvVars>>

(* the select of the session: case msg := <-controllerSendCh, sent on *)
SelectRelay ==
  /\ cl.pc = "select"
  /\ sendCh > 0
  /\ sendCh' = sendCh - 1
  /\ cl' = [cl EXCEPT !.first = IF @ = "" THEN Relayed.type ELSE @,
                      !.sent = Relayed]
  /\ UNCHANGED <<wnow, store, rl, reloadCh, ctxDone, rx, th, wlog, srvVars>>

(* controlPlaneServer.Connect: a tunneler on the allowlist opens a stream *)
HandlerConnect ==
  /\ th.pc \in {"off", "returned"}
  /\ cl.pc # "off"
  /\ th' = [th EXCEPT !.pc = "recv"]
  /\ UNCHANGED <<wnow, store, rl, cl, reloadCh, ctxDone, rx, sendCh, wlog, srvVars>>

(* controlPlaneServer.Connect: stream.Recv() returns a tunneler_heartbeat, *)
(* or the stream ends                                                      *)
HandlerRecv(type) ==
  /\ th.pc = "recv"
  /\ th' = [th EXCEPT !.pc = IF type = "tunneler_heartbeat" THEN "send"
                             ELSE "returned"]
  /\ UNCHANGED <<wnow, store, rl, cl, reloadCh, ctxDone, rx, sendCh, wlog, srvVars>>

(* controlPlaneServer.Connect: s.sendCh <- the relayed heartbeat *)
HandlerSend ==
  /\ th.pc = "send"
  /\ sendCh < SendCap
  /\ sendCh' = sendCh + 1
  /\ th' = [th EXCEPT !.pc = "recv"]
  /\ UNCHANGED <<wnow, store, rl, cl, reloadCh, ctxDone, rx, wlog, srvVars>>

InitProc ==
  /\ InitStores /\ now = 0 /\ tokenStoreSet = TRUE
  /\ wnow = 0
  /\ WorkloadRun("connector")

NextProc ==
  \/ Cancel
  \/ CtlHandshakeStart
  \/ CtlSendCertificate
  \/ CtlSign
  \/ CtlHello
  \/ \E cause \in {"error", "cancel"} : CtlSessionEnd(cause)
  \/ CtlBackoff
  \/ CtlExit
  \/ \E ok \in BOOLEAN : RxRecv(ok)
  \/ RxSend
  \/ SelectRecv
  \/ SelectRelay
  \/ HandlerConnect
  \/ \E type \in {"tunneler_heartbeat", "EOF"} : HandlerRecv(type)
  \/ HandlerSend

SpecProc == InitProc /\ [][NextProc]_vars

(* The timer of the backoff fires: the one step controlPlaneLoop waits   *)
(* for that no peer and no other task can withhold                        *)
SpecProcLive == SpecProc /\ WF_vars(CtlBackoff)

----------------------------------------------------------------------------
(* Presence: the Connect loop of the Controller and the admin listings *)

(* Connect: one message received on stream s is handled *)
ConnectRecv(s, msg) ==
  /\ stream[s].pc = "loop"
  /\ stream[s].alive
  /\ stream' = IF msg.type = "ping"
               THEN [stream EXCEPT ![s] = Send(s, ControlMessage("pong", <<>>))]
               ELSE stream
  /\ registry' = IF msg.type = "heartbeat"
                 THEN RecordHeartbeat(registry, msg.connector_id, msg.private_ip, now)
                 ELSE registry
  /\ tunnelerStatus' =
       IF msg.type = "tunneler_heartbeat"
       THEN LET payload == UnmarshalStatus(msg.payload)
            IN  IF payload.err THEN tunnelerStatus
                ELSE Record(tunnelerStatus, payload.TunnelerID, payload.SPIFFEID,
                            payload.ConnectorID, now)
       ELSE tunnelerStatus
  /\ obs' = Observed("recv", stream[s].owner, msg, {}, now, obs.off)
  /\ last' = NoOutcome
  /\ UNCHANGED <<now, cfgVars, wlVars, tokVars, tunnelers, notif, clients, allow, session>>

Offline(resp) == {r.ID : r \in {x \in resp : x.Status = "OFFLINE"}}

(* GET on the admin endpoint that lists the connectors *)
ListConnectors ==
  /\ LET resp == handleListConnectors(registry, now)
     IN  obs' = Observed("connectors", EmptySpiffe, NoWire, resp, now, obs.off \cup Offline(resp))
  /\ last' = NoOutcome
  /\ UNCHANGED <<now, cfgVars, wlVars, tokVars, registry, tunnelers, tunnelerStatus,
                 notif, ctlVars>>

(* GET on the admin endpoint that lists the tunnelers *)
ListTunnelers ==
  /\ LET resp == handleListTunnelers(tunnelerStatus, now)
     IN  obs' = Observed("tunnelers", EmptySpiffe, NoWire, resp, now, obs.off \cup Offline(resp))
  /\ last' = NoOutcome
  /\ UNCHANGED <<now, cfgVars, wlVars, tokVars, registry, tunnelers, tunnelerStatus,
                 notif, ctlVars>>

PresenceIPs == {"", "10.0.0.1", "10.0.0.7"}

PresenceMessages ==
  {WireMessage("heartbeat", id, ip, NoPayload) : id \in ConnectorIds, ip \in PresenceIPs}
  \cup {WireMessage("tunneler_heartbeat", "", "", payload) :
          payload \in {StatusPayload("t1", SpiffeID(TrustDomain, "tunneler", "t1"), "c1"),
                       StatusPayload("", EmptySpiffe, "c1"), JunkPayload}}
  \cup {WireMessage("connector_hello", "", "", NoPayload)}

(* Both connectors have enrolled at time 0 and hold a control stream *)
ConnectedStream(k) ==
  [IdleStream EXCEPT !.pc = "loop", !.owner = SpiffeID(TrustDomain, "connector", k),
                     !.alive = TRUE, !.first = "tunneler_allowlist"]

InitPresence ==
  /\ now = 0
  /\ tokens = <<>>
  /\ handed = {}
  /\ wins = [t \in TokenValues |-> 0]
  /\ registry = Register(Register(<<>>, "c1", "10.0.0.1", "1.0", 0),
                         "c2", "10.0.0.2", "1.1", 0)
  /\ tunnelers = [byID |-> <<>>, order |-> <<>>]
  /\ clients = Put(Put(<<>>, SpiffeID(TrustDomain, "connector", "c1"), 1),
                   SpiffeID(TrustDomain, "connector", "c2"), 2)
  /\ stream = [s \in StreamIds |->
                 IF s = 1 THEN ConnectedStream("c1")
                 ELSE IF s = 2 THEN ConnectedStream("c2") ELSE IdleStream]
  /\ notif = [t \in ValidIDs |-> IdleNotify]
  /\ allow = [k \in ConnectorIds |-> {}]
  /\ session = [k \in ConnectorIds |-> IF k = "c1" THEN 1 ELSE 2]
  /\ last = NoOutcome
  /\ file = NoFile
  /\ tunnelerStatus = <<>>
  /\ obs = NoObserved
  /\ tokenStoreSet = TRUE
  /\ WorkloadIdle

NextPresence ==
  \/ Tick
  \/ \E s \in {1, 2}, msg \in PresenceMessages : ConnectRecv(s, msg)
  \/ ListConnectors
  \/ ListTunnelers

SpecPresence == InitPresence /\ [][NextPresence]_vars

----------------------------------------------------------------------------
(* Claims *)

Enrollments == {"EnrollConnector", "EnrollTunneler"}

StoresUntouched ==
  /\ tokens = last.pre.tokens
  /\ registry = last.pre.registry
  /\ tunnelers = last.pre.tunnelers

(* C1: a token admits at most one successful consumption, whichever of     *)
(* ConsumeToken, EnrollConnector, EnrollTunneler presents it and with      *)
(* whichever id; every later call is refused.                              *)
C1_SingleUse == \A token \in TokenValues : wins[token] <= 1

(* The request passes the structural validation that precedes the token *)
PassesValidation(m, req) ==
  /\ validID(req.id)
  /\ m = "EnrollConnector" => req.private_ip # "" /\ req.version # ""
  /\ m = "EnrollTunneler" => req.token # ""
  /\ parsePublicKey(req.public_key).ok

(* No record for SHA-256(token) in toks, or its expires_at has passed at t *)
DeadToken(toks, token, t) ==
  \/ hashToken(token) \notin DOMAIN toks
  \/ t > toks[hashToken(token)].ExpiresAt

(* C9: when the presented token has no record or its expires_at has       *)
(* passed, the consumption fails: the enrollment RPC returns               *)
(* PermissionDenied, issues no certificate and leaves the token records,   *)
(* the registry and the allowlist as they were.                            *)
C9_DeadTokenRefused ==
  /\ ( /\ last.m \in Enrollments
       /\ last.ran
       /\ PassesValidation(last.m, last.req)
       /\ DeadToken(last.pre.tokens, last.req.token, now) )
     => /\ last.code = "PermissionDenied"
        /\ ~last.cert.issued
        /\ StoresUntouched
  /\ ( /\ last.m = "ConsumeToken"
       /\ last.req.id # ""
       /\ DeadToken(last.pre.tokens, last.req.token, now) )
     => last.code = "Unauthorized" /\ StoresUntouched

(* An enrollment has just been refused for a token whose expires_at passed *)
C9_Witness ==
  /\ last.m \in Enrollments
  /\ last.ran
  /\ PassesValidation(last.m, last.req)
  /\ hashToken(last.req.token) \in DOMAIN last.pre.tokens
  /\ now > last.pre.tokens[hashToken(last.req.token)].ExpiresAt
  /\ last.code = "PermissionDenied"

(* The peer presented one spiffe URI of the trust domain with a path of    *)
(* two non-empty segments, the first an allowed role                       *)
WellFormedPeer(peer) ==
  /\ peer.present
  /\ Len(peer.uris) = 1
  /\ peer.uris[1].scheme = "spiffe"
  /\ peer.uris[1].host = TrustDomain
  /\ Len(peer.uris[1].parts) = 2
  /\ peer.uris[1].parts[1] # ""
  /\ peer.uris[1].parts[2] # ""
  /\ makeRoleSet(AllowedRoles) # {} => peer.uris[1].parts[1] \in makeRoleSet(AllowedRoles)

PeerRole(peer) == peer.uris[1].parts[1]
PeerID(peer) == peer.uris[1].parts[2]

(* C2: Renew returns a certificate only if the id of the peer's SPIFFE URI *)
(* equals the request's id; otherwise it returns PermissionDenied, issues  *)
(* no certificate and changes nothing in the Controller.                   *)
C2_CrossRenewalDenied ==
  (last.m = "Renew" /\ last.ran) =>
    IF PeerID(last.peer) = last.req.id
    THEN TRUE
    ELSE last.code = "PermissionDenied" /\ ~last.cert.issued /\ StoresUntouched

(* C2 as amended: Renew returns a certificate only if the ids are equal;   *)
(* when they differ it returns an error and no certificate and changes     *)
(* nothing, and the error is PermissionDenied when the request's id and    *)
(* public key are structurally valid and the peer's id is not empty.       *)
C2_CrossRenewalRefused ==
  /\ (last.m = "Renew" /\ last.cert.issued) =>
        last.ran /\ PeerID(last.peer) = last.req.id
  /\ (last.m = "Renew" /\ last.ran /\ PeerID(last.peer) # last.req.id) =>
        /\ last.code \in {"PermissionDenied", "InvalidArgument", "Unauthenticated"}
        /\ ~last.cert.issued
        /\ StoresUntouched
        /\ ( /\ validID(last.req.id)
             /\ parsePublicKey(last.req.public_key).ok
             /\ PeerID(last.peer) # "" )
           => last.code = "PermissionDenied"

(* A connector has just asked to renew under another id and was denied *)
C2_Witness ==
  /\ last.m = "Renew"
  /\ last.ran
  /\ last.peer = CertFor("connector", "c1")
  /\ last.req.id = "t1"
  /\ last.req.public_key = GoodKey
  /\ last.code = "PermissionDenied"

(* C3: the handler of an RPC that is not marked unauthenticated runs only  *)
(* for a peer with exactly one spiffe URI of the trust domain whose path   *)
(* is two non-empty segments [role, id] with an allowed role.              *)
C3_HandlerOnlyForWellFormedPeer ==
  (last.m \in {"Renew", "EnrollTunneler", "EnrollConnector"}
     /\ last.m \notin UnauthenticatedMethods /\ last.ran)
    => WellFormedPeer(last.peer)

(* C4: EnrollConnector and EnrollTunneler reach their handler without any  *)
(* client certificate; Renew does not.                                     *)
C4_EnrollmentBypass ==
  /\ (last.m \in Enrollments /\ ~last.peer.present) => last.ran
  /\ (last.m = "Renew" /\ ~last.peer.present) => ~last.ran

(* C10: a certificate issued by Renew carries exactly the SPIFFE URI of    *)
(* the authenticated peer, role and id, and its lifetime is set by that    *)
(* role alone.                                                             *)
C10_RenewKeepsIdentity ==
  (last.m = "Renew" /\ last.cert.issued) =>
    /\ last.cert.uris = last.peer.uris
    /\ last.cert.uris = <<SpiffeID(TrustDomain, PeerRole(last.peer), last.req.id)>>
    /\ last.cert.notAfter - now =
         (IF PeerRole(last.peer) = "connector" THEN ConnectorCertTTL
          ELSE TunnelerCertTTL)

(* A tunneler has just renewed its certificate *)
C10_Witness ==
  /\ last.m = "Renew"
  /\ last.cert.issued
  /\ last.peer = CertFor("tunneler", "t1")
  /\ last.code = "OK"

(* C5: the inbound interceptor of a Connector invokes the handler for a    *)
(* peer of role tunneler only if the peer's SPIFFE id is in the            *)
(* Connector's allowlist at the time of the call.                          *)
C5_TunnelerNeedsAllowlist ==
  (last.m = "TunnelerConnect" /\ last.ran /\ PeerRole(last.peer) = "tunneler")
    => last.peer.uris[1] \in allow[last.at]

(* A tunneler on the allowlist has just been let in *)
C5_Witness ==
  /\ last.m = "TunnelerConnect"
  /\ last.ran
  /\ last.peer = CertFor("tunneler", "t1")
  /\ last.peer.uris[1] \in allow[last.at]

(* The SPIFFE ids of the Controller's authoritative allowlist *)
Authoritative ==
  {TunnelerList(tunnelers)[i].SPIFFEID : i \in 1..Len(TunnelerList(tunnelers))}

(* The stream of connector k is open, its snapshot has been sent, no       *)
(* broadcast is in progress and the Connector has handled every message    *)
Settled(k) ==
  /\ session[k] # 0
  /\ stream[session[k]].pc = "loop"
  /\ stream[session[k]].q = <<>>
  /\ \A t \in DOMAIN notif : notif[t].pc # "sending"

(* C6: once the enrollments are over and the Connector has handled every   *)
(* message of its open stream, its allowlist equals the authoritative set. *)
C6_AllowlistConverges ==
  \A k \in ConnectorIds : Settled(k) => allow[k] = Authoritative

(* C7: the first message sent on a control stream is tunneler_allowlist    *)
(* and it carries the authoritative set as of the moment it is sent.       *)
C7_SnapshotFirst ==
  \A s \in StreamIds : stream[s].first # "tunneler_allow" /\ ~stream[s].stale

(* C8: when EnrollTunneler(t) and its broadcast are over, t is in the      *)
(* authoritative allowlist and tunneler_allow for t has been sent on every *)
(* stream that was connected at the enrollment and still is (of these,     *)
(* the streams whose snapshot was taken before the enrollment: the others  *)
(* carry t in their snapshot).                                             *)
C8_DeltaToEveryConnected ==
  \A t \in DOMAIN notif : notif[t].pc = "done" =>
    /\ t \in DOMAIN tunnelers.byID
    /\ \A s \in notif[t].owed : stream[s].alive => t \in stream[s].deltas

(* The peer presented one spiffe URI of the trust domain with a two-segment *)
(* path whose role is outside the allowed set                               *)
UnknownRolePeer(peer) ==
  /\ peer.present
  /\ Len(peer.uris) = 1
  /\ peer.uris[1].scheme = "spiffe"
  /\ peer.uris[1].host = TrustDomain
  /\ Len(peer.uris[1].parts) = 2
  /\ peer.uris[1].parts[1] \notin makeRoleSet(AllowedRoles)

(* C11: a peer whose URI SAN names a role outside the allowed set is       *)
(* rejected by the interceptor with PermissionDenied, and no handler runs. *)
C11_UnknownRoleDenied ==
  (last.m \in {"Renew", "EnrollTunneler"} /\ UnknownRolePeer(last.peer))
    => ~last.ran /\ last.code = "PermissionDenied"

(* The status the handler of m owes the request, the checks taken in the   *)
(* order of the handler: validation, token store, token, issuance for the  *)
(* enrollments; validation, identity, id, issuance for Renew.              *)
OwedStatus(m, peer, req, toks, reg, t) ==
  IF m \in Enrollments
  THEN IF ~PassesValidation(m, req) THEN "InvalidArgument"
       ELSE IF ~TokensConfigured THEN "FailedPrecondition"
       ELSE IF req.token = "" \/ DeadToken(toks, req.token, t) THEN "PermissionDenied"
       ELSE IF ~IssueWorkloadCert(SpiffeID(TrustDomain, "x", req.id),
                                  parsePublicKey(req.public_key), 1, <<>>, t).ok
       THEN "Internal"
       ELSE "OK"
  ELSE IF ~validID(req.id) \/ ~parsePublicKey(req.public_key).ok THEN "InvalidArgument"
       ELSE IF PeerID(peer) = "" THEN "Unauthenticated"
       ELSE IF PeerID(peer) # req.id THEN "PermissionDenied"
       ELSE IF ~IssueWorkloadCert(SpiffeID(TrustDomain, "x", req.id),
                                  parsePublicKey(req.public_key), 1, <<>>, t).ok
       THEN "Internal"
       ELSE "OK"

(* C12: EnrollConnector, EnrollTunneler and Renew return the status of the *)
(* first failing check and do nothing after it: no certificate, no         *)
(* registry or allowlist entry, and no change of the token records when    *)
(* the failure precedes the consumption of the token.                      *)
C12_StatusOfFirstFailure ==
  (last.m \in Enrollments \cup {"Renew"} /\ last.ran) =>
    /\ last.code = OwedStatus(last.m, last.peer, last.req, last.pre.tokens,
                              last.pre.registry, now)
    /\ last.code # "OK" =>
         /\ ~last.cert.issued
         /\ registry = last.pre.registry
         /\ tunnelers = last.pre.tunnelers
         /\ last.code # "Internal" => tokens = last.pre.tokens

(* An enrollment has just been refused for want of a token store *)
C12_Witness ==
  /\ last.m = "EnrollTunneler"
  /\ last.ran
  /\ PassesValidation(last.m, last.req)
  /\ ~tokenStoreSet
  /\ last.code = "FailedPrecondition"

HandshakeRead == {"sign", "connected", "rejected"}

C16_AtomicReplace ==
  /\ rl.pc # "locked" =>
        /\ store.cert.Certificate.gen = store.cert.PrivateKey
        /\ store.notAfter = store.cert.Certificate.notAfter
  /\ cl.pc \in {"connected", "rejected"} => cl.chain.gen = cl.key

(* C17: a Renew response whose CA differs in DER from the pinned CA      *)
(* aborts the rotation: the store is left as it was, so is the total     *)
(* lifetime the schedule uses, and the loop goes back to schedule its    *)
(* next attempt.                                                         *)
C17_MismatchAborts ==
  [][(rl.pc = "renew" /\ rl'.pc # "renew" /\ ~rl'.resp.err
        /\ rl'.resp.ca.der # PinnedCA.der)
       => (store' = store /\ rl'.pc = "sched" /\ rl'.totalTTL = rl.totalTTL)]_vars

C17_Witness ==
  /\ rl.pc = "sched" /\ rl.n >= 1
  /\ ~rl.resp.err /\ rl.resp.ca = OtherCA
  /\ store.cert.Certificate.gen = rl.done

(* C18: the store only ever holds a leaf with exactly one URI SAN: a     *)
(* renewal response whose leaf has zero or several leaves the store      *)
(* unchanged.                                                            *)
C18_OneURISAN == store.cert.Certificate.uris = 1

C20_BackoffCapped ==
  cl.pc = "wait" => cl.backoff >= 2 /\ cl.backoff <= ThirtySeconds


(* Where the spec draws the line: ONLINE exactly when now - last_seen < 30 s *)
Classified(lastSeen, t) ==
  IF Sub(t, lastSeen) < OnlineWindow THEN "ONLINE" ELSE "OFFLINE"

Statuses(resp) == {<<r.ID, r.Status>> : r \in resp}

(* C21: every listing classifies each record ONLINE exactly when it was    *)
(* last seen less than 30 s before the listing and OFFLINE otherwise; no   *)
(* step removes a record of either registry; and a listing made at the     *)
(* time a heartbeat for an id has been recorded shows that id ONLINE.      *)
C21_PresenceClassification ==
  [][/\ DOMAIN registry \subseteq DOMAIN registry'
     /\ DOMAIN tunnelerStatus \subseteq DOMAIN tunnelerStatus'
     /\ obs'.op = "connectors"
          => Statuses(obs'.resp) =
               {<<id, Classified(registry[id].LastSeen, obs'.at)>> : id \in DOMAIN registry}
     /\ obs'.op = "tunnelers"
          => Statuses(obs'.resp) =
               {<<id, Classified(tunnelerStatus[id].LastSeen, obs'.at)>> :
                  id \in DOMAIN tunnelerStatus}
     /\ (obs'.op = "recv" /\ obs'.msg.type = "heartbeat")
          => <<obs'.msg.connector_id, "ONLINE">>
               \in Statuses(handleListConnectors(registry', obs'.at))
     /\ (obs'.op = "recv" /\ obs'.msg.type = "tunneler_heartbeat"
         /\ obs'.msg.payload.json /\ obs'.msg.payload.tunneler_id # "")
          => <<obs'.msg.payload.tunneler_id, "ONLINE">>
               \in Statuses(handleListTunnelers(tunnelerStatus', obs'.at))
    ]_vars

(* A listing shows ONLINE a connector that an earlier listing showed      *)
(* OFFLINE, next to one that is still OFFLINE                             *)
C21_Witness ==
  /\ obs.op = "connectors"
  /\ \E r \in obs.resp : r.Status = "ONLINE" /\ r.ID \in obs.off
  /\ \E r \in obs.resp : r.Status = "OFFLINE"

RelayBlocked == th.pc = "send" /\ sendCh = SendCap

(* C23: the handler of a tunneler's stream is never held up by the relay  *)
(* of a heartbeat: with the buffer full the heartbeat is dropped and the  *)
(* handler is back at receiving.                                          *)
C23_RelayNeverBlocks == ~RelayBlocked

C25_LoopRedials ==
  /\ [](cl.pc = "exited" => ctxDone)
  /\ [][(cl.pc \in SessionPcs /\ cl'.pc \notin SessionPcs)
          => (cl'.pc = "wait" \/ ctxDone)]_vars
  /\ (cl.pc = "wait") ~> (cl.pc = "dial" \/ ctxDone)

(* The loop dials once more after sessions have ended often enough for    *)
(* the backoff to have passed 30 s                                        *)
C25_Witness ==
  /\ cl.pc = "dial"
  /\ cl.backoff > ThirtySeconds
  /\ ~ctxDone

(* C26: once the context is cancelled and the control-stream loop has     *)
(* returned, no task is left blocked on a channel nobody will read: not   *)
(* the receive goroutine of the last or an earlier session, not the       *)
(* handler of a tunneler's stream.                                        *)
C26_NoTaskLeftBlocked ==
  (ctxDone /\ cl.pc = "exited")
    => (~Blocked(rx) /\ ~rx.leaked /\ ~RelayBlocked)


(* C27: a token record whose expires_at has passed is removed from the    *)
(* records of the store at some later time.                               *)
C27_ExpiredPurged ==
  \A token \in TokenValues :
    (hashToken(token) \in DOMAIN tokens /\ now > tokens[hashToken(token)].ExpiresAt)
      ~> (hashToken(token) \notin DOMAIN tokens)

(* C28: whatever calls have been made, loading the file at the store's    *)
(* path into a fresh store gives the records the store holds.             *)
C28_SaveLoadRoundTrip == load(TokenStorePath, file) = tokens


(* The last two renewal attempts both failed on the comparison of the CA *)
TwoMismatches ==
  /\ Len(wlog) >= 2
  /\ LET a == wlog[Len(wlog) - 1]
         b == wlog[Len(wlog)]
     IN  /\ a.err = "internal CA mismatch during renewal"
         /\ b.err = "internal CA mismatch during renewal"
         /\ b.n = a.n + 1
         /\ rl.n = b.n

(* C29: once two renewal attempts in a row have failed on a CA mismatch,  *)
(* the log holds an event other than the one written for any failed       *)
(* renewal.                                                               *)
C29_DistinctEvent ==
  TwoMismatches => \E i \in 1..Len(wlog) : wlog[i].event # RenewalFailedEvent

(* C30: a workload whose renewals have all failed and whose certificate   *)
(* has passed not_after has exited: it is not about to make one more      *)
(* renewal attempt with the expired certificate.                          *)
C30_ExitsAfterExpiry ==
  ~(rl.pc = "renew" /\ rl.n >= 1 /\ rl.done = 0 /\ NotAfter(store) <= wnow)


(* C31: the open control stream of a Connector is the one the broadcast   *)
(* set holds under its SPIFFE id, also after the handler of an earlier     *)
(* stream of the same Connector has returned and run removeClient.         *)
C31_OpenStreamInBroadcastSet ==
  \A k \in ConnectorIds :
    (session[k] # 0 /\ stream[session[k]].pc \in {"added", "listed", "loop"})
      => /\ stream[session[k]].owner \in DOMAIN clients
         /\ clients[stream[session[k]].owner] = session[k]


(* The connector records a step has created or changed *)
Touched == {id \in DOMAIN registry' : id \notin DOMAIN registry \/ registry'[id] # registry[id]}

(* C32: a message handled on a control stream creates or changes the      *)
(* presence record of no connector other than the one whose SPIFFE id     *)
(* was authenticated on that stream.                                      *)
C32_HeartbeatOwnRecordOnly ==
  [][obs'.op = "recv" => \A id \in Touched : id = obs'.peer.parts[2]]_vars


(* C33: when EnrollConnector or EnrollTunneler returns an error, the      *)
(* records of the token store are what they were before the call.         *)
C33_ErrorLeavesTokens ==
  (last.m \in Enrollments /\ last.code # "OK") => tokens = last.pre.tokens


(* C34: a session that a signal on reloadCh tears down is one whose       *)
(* handshake presented a certificate older than the one of the last       *)
(* completed swap.                                                        *)
C34_ReloadEndsOnlyStaleSession ==
  [][(reloadCh /\ ~reloadCh' /\ cl.pc = "connected")
       => cl.chain.gen # rl.done]_vars


----------------------------------------------------------------------------
(* SpecSend: the writers of one control stream of the Controller.  A Send  *)
(* takes time: a writer is in inSend from the call of stream.Send to its   *)
(* return, and sendMu names the writer holding connectorClient.sendMu.     *)

MaxQueue == 2

SendAllowlistWriter == <<"sendAllowlist">>
BroadcastWriter(t) == <<"broadcast", t>>
HandlerWriter == <<"Connect">>

(* sendAllowlist: c.sendMu.Lock() and the call of c.stream.Send *)
SnapshotSendBegin(s) ==
  /\ stream[s].pc = "listed"
  /\ stream[s].sendMu = <<>>
  /\ stream' = [stream EXCEPT ![s].pc = "sending",
                              ![s].sendMu = SendAllowlistWriter,
                              ![s].inSend = @ \cup {SendAllowlistWriter}]
  /\ last' = NoOutcome
  /\ UNCHANGED <<now, cfgVars, presVars, wlVars, tokVars, registry, tunnelers, notif, clients, allow, session>>

(* sendAllowlist: Send returns and the deferred c.sendMu.Unlock() runs *)
SnapshotSendEnd(s) ==
  /\ stream[s].pc = "sending"
  /\ LET msg == ControlMessage("tunneler_allowlist", MarshalList(stream[s].snap)) IN
     stream' = [stream EXCEPT ![s] =
                  [Send(s, msg) EXCEPT
                     !.pc = "loop",
                     !.stale = stream[s].snap # TunnelerList(tunnelers),
                     !.snap = <<>>,
                     !.sendMu = <<>>,
                     !.inSend = @ \ {SendAllowlistWriter}]]
  /\ last' = NoOutcome
  /\ UNCHANGED <<now, cfgVars, presVars, wlVars, tokVars, registry, tunnelers, notif, clients, allow, session>>

(* broadcast: c.sendMu.Lock() and the call of c.stream.Send *)
BroadcastSendBegin(t, s) ==
  /\ notif[t].pc = "sending"
  /\ s \in notif[t].targets
  /\ stream[s].sendMu = <<>>
  /\ stream' = [stream EXCEPT ![s].sendMu = BroadcastWriter(t),
                              ![s].inSend = @ \cup {BroadcastWriter(t)}]
  /\ last' = NoOutcome
  /\ UNCHANGED <<now, cfgVars, presVars, wlVars, tokVars, registry, tunnelers, notif, clients, allow, session>>

(* broadcast: Send returns, c.sendMu.Unlock() *)
BroadcastSendEnd(t, s) ==
  /\ stream[s].sendMu = BroadcastWriter(t)
  /\ stream' = [stream EXCEPT ![s] =
                  [Send(s, notif[t].msg) EXCEPT
                     !.sendMu = <<>>,
                     !.inSend = @ \ {BroadcastWriter(t)}]]
  /\ notif' = [notif EXCEPT ![t].targets = @ \ {s},
                            ![t].pc = IF notif[t].targets = {s} THEN "done" ELSE @]
  /\ last' = NoOutcome
  /\ UNCHANGED <<now, cfgVars, presVars, wlVars, tokVars, registry, tunnelers, clients, allow, session>>

(* Connect: Recv returns a ping and the handler calls stream.Send for the *)
(* pong, without taking sendMu                                             *)
PongBegin(s) ==
  /\ stream[s].pc = "loop"
  /\ stream[s].alive
  /\ Len(stream[s].q) < MaxQueue
  /\ stream' = [stream EXCEPT ![s].pc = "pong",
                              ![s].inSend = @ \cup {HandlerWriter}]
  /\ last' = NoOutcome
  /\ UNCHANGED <<now, cfgVars, presVars, wlVars, tokVars, registry, tunnelers, notif, clients, allow, session>>

(* Connect: the Send of the pong returns; after an error the handler      *)
(* returns from the loop as it does after a failed Recv                   *)
PongEnd(s) ==
  /\ stream[s].pc = "pong"
  /\ stream' = [stream EXCEPT ![s] =
                  [Send(s, ControlMessage("pong", <<>>)) EXCEPT
                     !.pc = "loop",
                     !.inSend = @ \ {HandlerWriter}]]
  /\ last' = NoOutcome
  /\ UNCHANGED <<now, cfgVars, presVars, wlVars, tokVars, registry, tunnelers, notif, clients, allow, session>>

NextSend ==
  \/ CreateToken("tokA", FALSE)
  \/ \E t \in TunnelerIds : EnrollOnce(t)
  \/ \E s \in StreamIds : ConnectOpen(s, CertFor("connector", "c1"))
  \/ \E s \in StreamIds : ConnectList(s)
  \/ \E s \in StreamIds : SnapshotSendBegin(s)
  \/ \E s \in StreamIds : SnapshotSendEnd(s)
  \/ \E t \in TunnelerIds, s \in StreamIds : BroadcastSendBegin(t, s)
  \/ \E t \in TunnelerIds, s \in StreamIds : BroadcastSendEnd(t, s)
  \/ \E s \in StreamIds : PongBegin(s)
  \/ \E s \in StreamIds : PongEnd(s)
  \/ \E s \in StreamIds : ConnectReturn(s)
  \/ ConnectorRecv("c1")
  \/ ConnectorDisconnect("c1")

SpecSend == InitCtl /\ [][NextSend]_vars

(* C35: at most one goroutine is inside Send on a control stream of the   *)
(* Controller at any time: the pong of the handler and the allowlist       *)
(* messages of sendAllowlist and broadcast exclude one another.            *)
C35_OneSenderPerStream ==
  \A s \in StreamIds : Cardinality(stream[s].inSend) <= 1


(* C36: while one Controller process runs, every SPIFFE id of a            *)
(* Connector's local allowlist is in the authoritative allowlist of the    *)
(* Controller: the Connector admits no identity the Controller did not     *)
(* enroll.                                                                 *)
C36_LocalWithinAuthoritative ==
  \A k \in ConnectorIds : allow[k] \subseteq Authoritative

(* A Connector has learnt of the enrolled tunneler *)
C36_Witness ==
  \E k \in ConnectorIds :
    /\ SpiffeID(TrustDomain, "tunneler", "t1") \in allow[k]
    /\ session[k] # 0


----------------------------------------------------------------------------
(* SpecInbound: the inbound server of Connector c1.  A tunneler opens a    *)
(* stream through the interceptor and sends heartbeats, which the handler *)
(* relays towards the Controller, while the allowlist of the Connector     *)
(* follows the messages of its own control stream.                         *)

InboundConnector == "c1"

(* parseTunnelerID: the third element of the id split at "/", after the   *)
(* prefix spiffe:// is trimmed; an id of another scheme keeps its prefix   *)
(* and has an empty second element                                         *)
parseTunnelerID(spiffeID) ==
  IF spiffeID = EmptySpiffe THEN ""
  ELSE LET parts == IF spiffeID.scheme = "spiffe"
                    THEN <<spiffeID.host>> \o spiffeID.parts
                    ELSE <<spiffeID.scheme, "", spiffeID.host>> \o spiffeID.parts
       IN  IF Len(parts) < 3 THEN ""
           ELSE IF parts[2] # "tunneler" THEN ""
           ELSE parts[3]

(* The handler forwarding the payload of the tunneler's message as it is *)
RelayedHeartbeat_Forward(tunnelerID, spiffeID, connectorID, msg) ==
  [WireMessage("tunneler_heartbeat", "", "", msg.payload) EXCEPT !.status = ""]

(* controlPlaneServer.Connect: the message put on sendCh for msg *)
RelayedHeartbeat(tunnelerID, spiffeID, connectorID, msg) ==
  [WireMessage("tunneler_heartbeat", "", "",
               [StatusPayload(tunnelerID, spiffeID, connectorID)
                  EXCEPT !.status = msg.status])
     EXCEPT !.status = ""]

(* What a tunneler may send: its heartbeat with its own identity in the   *)
(* payload, with the identity of another tunneler and Connector, with     *)
(* bytes that are no JSON, and a ping                                      *)
InboundMessages ==
  { WireMessage("tunneler_heartbeat", "", "",
      StatusPayload("t1", SpiffeID(TrustDomain, "tunneler", "t1"), "")),
    WireMessage("tunneler_heartbeat", "", "",
      StatusPayload("t2", SpiffeID(TrustDomain, "tunneler", "t2"), "c2")),
    WireMessage("tunneler_heartbeat", "", "", JunkPayload),
    WireMessage("ping", "", "", NoPayload) }

(* The interceptor and controlPlaneServer.Connect up to the first Recv *)
InboundOpen(peer) ==
  /\ th.pc \in {"off", "returned"}
  /\ LET ic == StreamInterceptorWithAllowlist(peer, allow[InboundConnector]) IN
     th' = IF ~ic.invoked \/ ic.role # "tunneler"
           THEN [HandlerOff EXCEPT !.pc = "returned"]
           ELSE [HandlerOff EXCEPT !.pc = "recv",
                                   !.spiffeID = ic.spiffeID,
                                   !.tunnelerID = parseTunnelerID(ic.spiffeID)]
  /\ UNCHANGED <<wnow, store, rl, cl, reloadCh, ctxDone, rx, sendCh, wlog, srvVars>>

(* controlPlaneServer.Connect: stream.Recv() returns msg, or io.EOF; a    *)
(* ping is answered on the stream                                          *)
InboundRecv(ok, msg) ==
  /\ th.pc = "recv"
  /\ th' = IF ~ok THEN [HandlerOff EXCEPT !.pc = "returned"]
           ELSE [th EXCEPT !.in = msg,
                           !.pc = IF msg.type = "tunneler_heartbeat"
                                  THEN "send" ELSE "recv"]
  /\ UNCHANGED <<wnow, store, rl, cl, reloadCh, ctxDone, rx, sendCh, wlog, srvVars>>

(* controlPlaneServer.Connect: s.sendCh <- the relayed heartbeat *)
InboundRelay ==
  /\ th.pc = "send"
  /\ sendCh < SendCap
  /\ sendCh' = sendCh + 1
  /\ th' = [th EXCEPT !.pc = "recv",
                      !.out = RelayedHeartbeat(th.tunnelerID, th.spiffeID,
                                               InboundConnector, th.in)]
  /\ UNCHANGED <<wnow, store, rl, cl, reloadCh, ctxDone, rx, wlog, srvVars>>

NextInbound ==
  \/ CreateToken("tokA", FALSE)
  \/ \E t \in TunnelerIds : EnrollOnce(t)
  \/ \E s \in StreamIds : ConnectOpen(s, CertFor("connector", InboundConnector))
  \/ \E s \in StreamIds : ConnectList(s)
  \/ \E s \in StreamIds : ConnectSendSnapshot(s)
  \/ \E t \in TunnelerIds, s \in StreamIds : BroadcastSend(t, s)
  \/ ConnectorRecv(InboundConnector)
  \/ \E peer \in InboundPeers : InboundOpen(peer)
  \/ \E ok \in BOOLEAN, msg \in InboundMessages : InboundRecv(ok, msg)
  \/ InboundRelay

SpecInbound == InitCtl /\ [][NextInbound]_vars

(* The stream of an attached tunneler is open *)
Attached == th.pc \in {"recv", "send"}

(* C37: every tunneler stream open on a Connector belongs to a SPIFFE id  *)
(* of the Connector's current allowlist: once a snapshot has replaced the *)
(* allowlist by a set without an attached tunneler, its stream is no      *)
(* longer open.                                                            *)
C37_AttachedAreAllowed ==
  Attached => th.spiffeID \in allow[InboundConnector]


(* C38: every tunneler_heartbeat a Connector relays upstream carries the  *)
(* tunneler_id and spiffe_id of the peer authenticated on the inbound     *)
(* stream and the connector_id of the Connector, whatever the payload of  *)
(* the tunneler's message was.                                             *)
C38_RelayCarriesPeerIdentity ==
  th.out # NoWire =>
    /\ th.out.type = "tunneler_heartbeat"
    /\ th.out.payload.json
    /\ th.out.payload.spiffe_id = th.spiffeID
    /\ th.out.payload.tunneler_id = th.spiffeID.parts[2]
    /\ th.out.payload.connector_id = InboundConnector

(* A heartbeat whose payload names another tunneler and Connector, or is  *)
(* no JSON, has been relayed                                               *)
C38_Witness ==
  /\ th.out # NoWire
  /\ th.pc = "recv"
  /\ \/ ~th.in.payload.json
     \/ th.in.payload.tunneler_id # th.spiffeID.parts[2]
  /\ th.in.type = "tunneler_heartbeat"


----------------------------------------------------------------------------
(* SpecAllow: handleControlMessage on the Connectors, under every delta   *)
(* and snapshot over a few tunnelers, an entry without SPIFFE id included  *)

MaxDeltas == 3

AllowInfos ==
  {[ID |-> id, SPIFFEID |-> SpiffeID(TrustDomain, "tunneler", id)] :
     id \in {"t1", "t2", "t3"}}
  \cup {[ID |-> "t4", SPIFFEID |-> EmptySpiffe]}

AllowDeltas == {ControlMessage("tunneler_allow", MarshalInfo(i)) : i \in AllowInfos}

AllowSnapshots ==
  {ControlMessage("tunneler_allowlist", MarshalList(l)) :
     l \in {<<>>} \cup {<<i>> : i \in AllowInfos}
                  \cup {<<i, j>> : i \in AllowInfos, j \in AllowInfos}}

(* connectControlPlane hands msg to handleControlMessage *)
AllowHandle(k, msg) ==
  /\ allow' = [allow EXCEPT ![k] = handleControlMessage(msg, @)]
  /\ last' = [NoOutcome EXCEPT !.m = "handleControlMessage", !.at = k,
                               !.code = msg.type]
  /\ UNCHANGED <<now, cfgVars, presVars, wlVars, tokVars, registry, tunnelers, notif, clients, stream, session>>

NextAllow ==
  \E k \in ConnectorIds, msg \in AllowDeltas \cup AllowSnapshots : AllowHandle(k, msg)

SpecAllow == InitCtl /\ [][NextAllow]_vars

(* The allowlist after the messages of seq have been handled in order *)
RECURSIVE HandleAll(_, _)
HandleAll(seq, bySPIFFE) ==
  IF seq = <<>> THEN bySPIFFE
  ELSE HandleAll(Tail(seq), handleControlMessage(Head(seq), bySPIFFE))

DeltaRuns == UNION {[1..n -> AllowDeltas] : n \in 0..MaxDeltas}

Range(seq) == {seq[i] : i \in 1..Len(seq)}

SpiffeIDsOf(payload) ==
  {payload[i].spiffe_id : i \in 1..Len(payload)} \ {EmptySpiffe}

(* C39: on the Connector a tunneler_allow only adds its SPIFFE id, and    *)
(* a run of deltas gives an allowlist that depends on the set of deltas    *)
(* in it alone, whatever their order and repetition: the allowlist before  *)
(* the run joined with the SPIFFE ids of that set.  A tunneler_allowlist   *)
(* makes the allowlist exactly the SPIFFE ids of the snapshot.             *)
C39_DeltasAddSnapshotsReplace ==
  \A k \in ConnectorIds :
    /\ \A d \in AllowDeltas :
         LET after == handleControlMessage(d, allow[k]) IN
         /\ allow[k] \subseteq after
         /\ after \ allow[k] \subseteq {d.payload.spiffe_id}
         /\ d.payload.spiffe_id # EmptySpiffe => d.payload.spiffe_id \in after
    /\ \A r \in DeltaRuns :
         HandleAll(r, allow[k]) =
           allow[k] \cup ({d.payload.spiffe_id : d \in Range(r)} \ {EmptySpiffe})
    /\ \A m \in AllowSnapshots :
         handleControlMessage(m, allow[k]) = SpiffeIDsOf(m.payload)

(* An allowlist built of two deltas, and one a snapshot has shrunk *)
C39_Witness ==
  /\ last.m = "handleControlMessage"
  /\ Cardinality(allow["c1"]) = 2
  /\ last.code = "tunneler_allow"
  /\ Cardinality(allow["c2"]) = 1


----------------------------------------------------------------------------
(* SpecBeat: what a workload sends on the stream it has opened, the       *)
(* Connector towards the Controller (connectControlPlane) and the         *)
(* Tunneler towards the Connector (connectToConnector)                     *)

(* The ticker of the session fires: ticker.C holds one tick, a tick that  *)
(* finds it full is dropped                                                *)
TickerFire ==
  /\ cl.pc = "select"
  /\ cl' = [cl EXCEPT !.tick = TRUE]
  /\ UNCHANGED <<wnow, store, rl, reloadCh, procVars, wlog, srvVars>>

(* the select of the session: case <-ticker.C, the heartbeat is sent; a   *)
(* failed Send ends the session                                            *)
SelectTick(ok) ==
  /\ cl.pc = "select"
  /\ cl.tick
  /\ IF ok
     THEN /\ cl' = [cl EXCEPT !.tick = FALSE,
                              !.first = IF @ = "" THEN Heartbeat(rl.role).type ELSE @,
                              !.sent = Heartbeat(rl.role)]
          /\ UNCHANGED <<wnow, store, rl, reloadCh, procVars, wlog, srvVars>>
     ELSE CtlSessionEnd("error")

InitBeat ==
  /\ InitStores /\ now = 0 /\ tokenStoreSet = TRUE
  /\ wnow = 0
  /\ \E role \in {"connector", "tunneler"} : WorkloadRun(role)

NextBeat ==
  \/ Cancel
  \/ CtlHandshakeStart
  \/ CtlSendCertificate
  \/ CtlSign
  \/ CtlHello
  \/ \E cause \in {"error", "cancel"} : CtlSessionEnd(cause)
  \/ CtlBackoff
  \/ CtlExit
  \/ TickerFire
  \/ \E ok \in BOOLEAN : SelectTick(ok)
  \/ rl.role = "connector" /\ SelectRelay
  \/ rl.role = "connector" /\ HandlerConnect
  \/ rl.role = "connector"
       /\ \E type \in {"tunneler_heartbeat", "EOF"} : HandlerRecv(type)
  \/ rl.role = "connector" /\ HandlerSend

SpecBeat == InitBeat /\ [][NextBeat]_vars

(* The select takes a case that is ready: a tick held by ticker.C is     *)
(* received while the session lasts                                       *)
SpecBeatLive == SpecBeat /\ WF_vars(\E ok \in BOOLEAN : SelectTick(ok))

(* What the session has sent so far: nothing before the hello, then one  *)
(* hello, which came first, and heartbeats with the fields of the role    *)
HelloFirst ==
  /\ cl.pc # "select" => cl.hellos = 0 /\ cl.sent = NoWire /\ cl.first = ""
  /\ cl.pc = "select" =>
       /\ cl.hellos = 1
       /\ cl.first = IF rl.role = "connector" THEN "connector_hello"
                     ELSE "tunneler_hello"
       /\ cl.sent.type \in IF rl.role = "connector"
                           THEN {"connector_hello", "heartbeat", "tunneler_heartbeat"}
                           ELSE {"tunneler_hello", "tunneler_heartbeat"}
  /\ (rl.role = "connector" /\ cl.sent.type = "heartbeat") =>
       /\ cl.sent.connector_id = "c1"
       /\ cl.sent.private_ip = WorkloadIP
       /\ cl.sent.status = "ONLINE"
  /\ (rl.role = "tunneler" /\ cl.sent.type = "tunneler_heartbeat") =>
       /\ cl.sent.payload.json
       /\ cl.sent.payload.tunneler_id = "t1"
       /\ cl.sent.payload.spiffe_id = SpiffeID(TrustDomain, "tunneler", "t1")
       /\ cl.sent.status = "ONLINE"

TickHeld == cl.pc = "select" /\ cl.tick

BeatSentOrOver ==
  \/ cl.pc # "select"
  \/ ~cl.tick /\ cl.sent = Heartbeat(rl.role)

(* C40: in every session the Connector sends connector_hello once and    *)
(* before any heartbeat or relayed message, then a heartbeat with its     *)
(* connector_id, private_ip and status ONLINE on every tick until the     *)
(* session ends; the Tunneler does the same with tunneler_hello and       *)
(* tunneler_heartbeat.                                                     *)
C40_HelloThenHeartbeats ==
  []HelloFirst /\ (TickHeld ~> BeatSentOrOver)

(* The Tunneler has sent a heartbeat and the next tick is held *)
C40_Witness ==
  /\ rl.role = "tunneler"
  /\ cl.pc = "select"
  /\ cl.sent.type = "tunneler_heartbeat"
  /\ cl.tick

====
